---- MODULE Spec2Model ----
(***************************************************************************)
(* The voice-session engine of the hospital reception bot: the App        *)
(* component's session lifecycle (startAssistant / stopAssistant), the    *)
(* transport callbacks (onopen, onmessage, onerror, onclose), playback    *)
(* tracking, the tool-call loop and the hang_up deferral.                 *)
(*                                                                         *)
(* Three variants of the component are modelled over the same state:      *)
(*   Spec, SpecTools, SpecSched, SpecCapture, SpecHangUp                  *)
(*            src/unnamed/part_003 (async stopAssistant with a guard,     *)
(*            heartbeat interval, 400 ms drain check)                     *)
(*   SpecApp  src/App.tsx, third component (synchronous stopAssistant,    *)
(*            5 s hang_up fallback timer)                                 *)
(*   SpecInterrupt  src/unnamed/part_005 (synchronous stopAssistant,      *)
(*            interruption of playback), without its tool calls           *)
(* SpecCodec applies encode and decode of src/App.tsx to sample buffers,   *)
(* SpecQuantize the float-to-int16 quantization of onaudioprocess, and     *)
(* SpecBooking the booking tool handlers of src/App.tsx to the             *)
(* doctor_slots and doctor_appointments tables.                            *)
(*                                                                         *)
(* The component is modelled with a patient identified (the session       *)
(* controls are rendered only then).  React state is modelled as the      *)
(* value last set (isActive, botState) together with the value of the     *)
(* last committed render (rIsActive): closures created by a render (the   *)
(* UI handlers, the memoised stopAssistant, the effect cleanup) read the  *)
(* rendered value, not the latest one.  Log entries, the error banner and *)
(* the emergency flag are display state and are left out.                 *)
(***************************************************************************)
EXTENDS Integers, Sequences, FiniteSets, TLC

\* ---------------------------------------------------------------- bounds
MaxInputs == 4      \* inputs in one run of Spec: clicks, audio chunks, faults
MaxToolInputs == 3  \* inputs in one run of SpecTools
MaxAppInputs == 4   \* inputs in one run of SpecApp
MaxSessions == 2    \* calls of startAssistant in one run
MaxStops == 2       \* invocations of stopAssistant suspended at an await at once
MaxMsgs == 3        \* inbound transport messages in one run
MaxCount == 2       \* saturation of the effect counters
MaxBatch == 2       \* function calls in one tool-call batch (SpecTools)
MaxAppBatch == 1    \* function calls in one tool-call batch (SpecApp)
MaxDur == 2         \* longest audio chunk, in ticks of the playback clock
MaxClock == 3       \* the playback clock stops advancing on its own here
MaxSchedInputs == 3 \* inputs in one run of SpecSched
MaxCaptureInputs == 4 \* inputs in one run of SpecCapture
MaxHangUpInputs == 3 \* inputs in one run of SpecHangUp
MaxFrames == 2      \* frames one script processor captures in one run
FrameSamples == 4096 \* createScriptProcessor(4096, 1, 1)
BytesPerSample == 2 \* Int16Array.BYTES_PER_ELEMENT
MaxSamples == 3     \* samples in one buffer handed to encode (SpecCodec)
MaxInterruptInputs == 4 \* inputs in one run of SpecInterrupt
MaxSummaryInputs == 4 \* inputs in one run of SpecSummary
MaxDecodeInputs == 3 \* inputs in one run of SpecDecode
MaxToolsP5Inputs == 3 \* inputs in one run of SpecToolsP5
MaxTranscriptInputs == 5 \* inputs in one run of SpecTranscript
MaxCursorInputs == 5 \* inputs in one run of SpecCursor
MaxTimerInputs == 5 \* inputs in one run of SpecTimer
MaxRestartInputs == 3 \* inputs in one run of SpecRestart
MaxSlots == 2         \* rows of doctor_slots
MaxAppointments == 2  \* rows doctor_appointments can hold
MaxBookingInputs == 3 \* tool calls in one run of SpecBooking
SampleSteps == 4      \* captured samples are the multiples of 1/SampleSteps

Sessions == 1..MaxSessions
Msgs == 1..MaxMsgs
Durations == 1..MaxDur

VARIABLES
    \* React state (value last set) and the last committed render
    isActive, botState, rIsActive,
    \* refs (0 stands for null, s > 0 for the object created by start call s)
    inputAudioContextRef, outputAudioContextRef, scriptProcessorRef,
    mediaStreamRef, sessionRef, heartbeatIntervalRef, callStartTimeRef,
    isStartingRef, hangupPendingRef, sourcesRef,
    transcriptHistoryRef, currentTurnRef,
    \* the objects the refs point to, per start call
    ctxIn, ctxOut, stream, proc, ticker, transport,
    \* control state: start calls, suspended stop invocations, sources, timers
    nCalls, startPc, stopsAt, src, drainTimers, hangupTimers, nMsgs, tool,
    inputs,
    \* observable effects
    closeCalls, summaryTriggers, sent,
    clock,
    nextStartTimeRef,
    play,
    captured,
    audioOut,
    lateSends,
    codec,
    interrupts,
    releaseLog,
    summaryJobs,
    summaryLog,
    dropped,
    skipped,
    hangupTimerOf,
    doctor_slots,
    doctor_appointments,
    dbCall,
    bookingResults,
    pcm

vars == << isActive, botState, rIsActive,
           inputAudioContextRef, outputAudioContextRef, scriptProcessorRef,
           mediaStreamRef, sessionRef, heartbeatIntervalRef, callStartTimeRef,
           isStartingRef, hangupPendingRef, sourcesRef,
           transcriptHistoryRef, currentTurnRef,
           ctxIn, ctxOut, stream, proc, ticker, transport,
           nCalls, startPc, stopsAt, src, drainTimers, hangupTimers, nMsgs, tool,
           inputs,
           closeCalls, summaryTriggers, sent,
           clock,
           nextStartTimeRef,
           play,
           captured,
           audioOut,
           lateSends,
           codec,
           interrupts,
           releaseLog,
           summaryJobs,
           summaryLog,
           dropped,
           skipped,
           hangupTimerOf,
           doctor_slots,
           doctor_appointments,
           dbCall,
           bookingResults,
           pcm >>

\* The whole state as one record, so that a handler that calls another
\* (stopAssistant from a callback) is the composition of two functions.
State ==
    [ isActive |-> isActive, botState |-> botState, rIsActive |-> rIsActive,
      inputAudioContextRef |-> inputAudioContextRef,
      outputAudioContextRef |-> outputAudioContextRef,
      scriptProcessorRef |-> scriptProcessorRef,
      mediaStreamRef |-> mediaStreamRef, sessionRef |-> sessionRef,
      heartbeatIntervalRef |-> heartbeatIntervalRef,
      callStartTimeRef |-> callStartTimeRef,
      isStartingRef |-> isStartingRef, hangupPendingRef |-> hangupPendingRef,
      sourcesRef |-> sourcesRef,
      transcriptHistoryRef |-> transcriptHistoryRef,
      currentTurnRef |-> currentTurnRef,
      ctxIn |-> ctxIn, ctxOut |-> ctxOut, stream |-> stream, proc |-> proc,
      ticker |-> ticker, transport |-> transport,
      nCalls |-> nCalls, startPc |-> startPc, stopsAt |-> stopsAt, src |-> src,
      drainTimers |-> drainTimers, hangupTimers |-> hangupTimers,
      nMsgs |-> nMsgs, tool |-> tool, inputs |-> inputs,
      closeCalls |-> closeCalls, summaryTriggers |-> summaryTriggers,
      sent |-> sent,
      clock |-> clock,
      nextStartTimeRef |-> nextStartTimeRef,
      play |-> play,
      captured |-> captured,
      audioOut |-> audioOut,
      lateSends |-> lateSends,
      codec |-> codec,
      interrupts |-> interrupts,
      releaseLog |-> releaseLog,
      summaryJobs |-> summaryJobs,
      summaryLog |-> summaryLog,
      dropped |-> dropped,
      skipped |-> skipped,
      hangupTimerOf |-> hangupTimerOf,
      doctor_slots |-> doctor_slots,
      doctor_appointments |-> doctor_appointments,
      dbCall |-> dbCall,
      bookingResults |-> bookingResults,
      pcm |-> pcm ]

Commit(st) ==
    /\ isActive' = st.isActive /\ botState' = st.botState
    /\ rIsActive' = st.rIsActive
    /\ inputAudioContextRef' = st.inputAudioContextRef
    /\ outputAudioContextRef' = st.outputAudioContextRef
    /\ scriptProcessorRef' = st.scriptProcessorRef
    /\ mediaStreamRef' = st.mediaStreamRef /\ sessionRef' = st.sessionRef
    /\ heartbeatIntervalRef' = st.heartbeatIntervalRef
    /\ callStartTimeRef' = st.callStartTimeRef
    /\ isStartingRef' = st.isStartingRef
    /\ hangupPendingRef' = st.hangupPendingRef
    /\ sourcesRef' = st.sourcesRef
    /\ transcriptHistoryRef' = st.transcriptHistoryRef
    /\ currentTurnRef' = st.currentTurnRef
    /\ ctxIn' = st.ctxIn /\ ctxOut' = st.ctxOut /\ stream' = st.stream
    /\ proc' = st.proc /\ ticker' = st.ticker /\ transport' = st.transport
    /\ nCalls' = st.nCalls /\ startPc' = st.startPc /\ stopsAt' = st.stopsAt
    /\ src' = st.src /\ drainTimers' = st.drainTimers
    /\ hangupTimers' = st.hangupTimers /\ nMsgs' = st.nMsgs /\ tool' = st.tool
    /\ inputs' = st.inputs
    /\ closeCalls' = st.closeCalls /\ summaryTriggers' = st.summaryTriggers
    /\ sent' = st.sent
    /\ clock' = st.clock
    /\ nextStartTimeRef' = st.nextStartTimeRef
    /\ play' = st.play
    /\ captured' = st.captured
    /\ audioOut' = st.audioOut
    /\ lateSends' = st.lateSends
    /\ codec' = st.codec
    /\ interrupts' = st.interrupts
    /\ releaseLog' = st.releaseLog
    /\ summaryJobs' = st.summaryJobs
    /\ summaryLog' = st.summaryLog
    /\ dropped' = st.dropped
    /\ skipped' = st.skipped
    /\ hangupTimerOf' = st.hangupTimerOf
    /\ doctor_slots' = st.doctor_slots
    /\ doctor_appointments' = st.doctor_appointments
    /\ dbCall' = st.dbCall
    /\ bookingResults' = st.bookingResults
    /\ pcm' = st.pcm

StopPcs == {"close", "inOk", "inErr", "outOk", "outErr"}
NoTool == [sess |-> 0, msg |-> 0, calls |-> << >>, idx |-> 0]
EmptyTurn == [user |-> << >>, maya |-> << >>]
\* one buffer on its way through encode and decode
NoCodec == [pc |-> "idle", samples |-> << >>, bytes |-> << >>,
            wire |-> << >>, out |-> << >>]
\* one captured frame on its way through the quantization
NoPcm == [pc |-> "idle", inputData |-> << >>, int16 |-> << >>]
\* the rows of doctor_slots (of one doctor) and the ids of doctor_appointments;
\* a slot starts at the time that bears its number, 0 is a null column
SlotIds == 1..MaxSlots
NoSuchSlot == MaxSlots + 1
AppointmentIds == 1..MaxAppointments
FreeSlot(id) == [start_time |-> id, is_available |-> TRUE,
                 booked_by_phone |-> "null", appointment_id |-> 0]
\* the booking handler that is running, at its awaited request
NoDbCall == [name |-> "none", pc |-> "none", slot_id |-> 0,
             appointment_id |-> 0, time_string |-> 0, slot |-> 0]
\* what is known of the buffer source of message k: the session whose
\* handler made it, buffer.duration, the argument of source.start() and
\* ctx.currentTime at that call
NoPlay == [sess |-> 0, dur |-> 0, start |-> 0, at |-> 0]

\* A continuation that runs as a microtask is pending: that of an await on a
\* value that is settled already.  session.close() returns no promise, the
\* connect promise resolves in the tick of onopen, decodeAudioData and the
\* hang_up handler are async functions without an await.
MicrotaskPending ==
    \/ stopsAt["close"] > 0
    \/ \E s \in Sessions : startPc[s] = "opened"
    \/ \E k \in Msgs : src[k] = "decoding"
    \/ tool # NoTool /\ tool.calls[tool.idx] = "hang_up"

\* Microtasks run before anything else, and no handler runs between a state
\* change and the render that commits it.
Settled == isActive = rIsActive /\ ~MicrotaskPending

\* An input (a click, an inbound message, a transport fault, a denied
\* permission) is taken while the run's budget lasts; inputs is the number
\* of inputs the run may still take.
HasBudget == Settled /\ inputs > 0
Input(st) == [st EXCEPT !.inputs = @ - 1]

Bump(n) == IF n < MaxCount THEN n + 1 ELSE MaxCount

\* The state after the component has mounted with a patient identified:
\* every ref null, nothing acquired (useState / useRef initial values).
Mounted ==
    /\ isActive = FALSE /\ botState = "idle" /\ rIsActive = FALSE
    /\ inputAudioContextRef = 0 /\ outputAudioContextRef = 0
    /\ scriptProcessorRef = 0 /\ mediaStreamRef = 0 /\ sessionRef = 0
    /\ heartbeatIntervalRef = 0 /\ callStartTimeRef = 0
    /\ isStartingRef = FALSE /\ hangupPendingRef = FALSE
    /\ sourcesRef = {}
    /\ transcriptHistoryRef = << >> /\ currentTurnRef = EmptyTurn
    /\ ctxIn = [s \in Sessions |-> "none"]
    /\ ctxOut = [s \in Sessions |-> "none"]
    /\ stream = [s \in Sessions |-> "none"]
    /\ proc = [s \in Sessions |-> "none"]
    /\ ticker = [s \in Sessions |-> "none"]
    /\ transport = [s \in Sessions |-> "none"]
    /\ nCalls = 0
    /\ startPc = [s \in Sessions |-> "none"]
    /\ stopsAt = [p \in StopPcs |-> 0]
    /\ src = [k \in Msgs |-> "none"]
    /\ drainTimers = 0 /\ hangupTimers = 0 /\ nMsgs = 0 /\ tool = NoTool
    /\ closeCalls = [s \in Sessions |-> 0]
    /\ summaryTriggers = [s \in Sessions |-> 0]
    /\ sent = [s \in Sessions |-> << >>]
    /\ clock = 0
    /\ nextStartTimeRef = 0
    /\ play = [k \in Msgs |-> NoPlay]
    /\ captured = [s \in Sessions |-> 0]
    /\ audioOut = [s \in Sessions |-> << >>]
    /\ lateSends = [s \in Sessions |-> 0]
    /\ codec = NoCodec
    /\ interrupts = 0
    /\ releaseLog = << >>
    /\ summaryJobs = {}
    /\ summaryLog = << >>
    /\ dropped = {}
    /\ skipped = {}
    /\ hangupTimerOf = << >>
    /\ doctor_slots = [id \in SlotIds |-> FreeSlot(id)]
    /\ doctor_appointments = << >>
    /\ dbCall = NoDbCall
    /\ bookingResults = << >>
    /\ pcm = NoPcm

Init == Mounted /\ inputs = MaxInputs
InitTools == Mounted /\ inputs = MaxToolInputs
InitApp == Mounted /\ inputs = MaxAppInputs

\* ------------------------------------------------------------------------
\* src/unnamed/part_003: saveCallSummary and stopAssistant
\* ------------------------------------------------------------------------

StopsInFlight(st) ==
    st.stopsAt["close"] + st.stopsAt["inOk"] + st.stopsAt["inErr"]
        + st.stopsAt["outOk"] + st.stopsAt["outErr"]

Suspend(st, pc) == [st EXCEPT !.stopsAt[pc] = @ + 1]
Resume(st, pc) == [st EXCEPT !.stopsAt[pc] = @ - 1]

\* saveCallSummary past its early returns (the same statements in part_003
\* and in src/App.tsx): the transcript is joined into the prompt at once.
\* With an empty transcript nothing is awaited before the insert, whose row
\* is built from callStartTimeRef.current in the same step; otherwise the
\* function is suspended at "await ai.models.generateContent(...)"
\* (summaryJobs holds the suspended calls: the call they were requested for
\* and the transcript they took).
RequestSummary(st) ==
    LET s == st.callStartTimeRef IN
    IF st.transcriptHistoryRef = << >>
    THEN [st EXCEPT !.summaryLog =
                        Append(@, [of |-> s, start |-> s, saved |-> TRUE])]
    ELSE [st EXCEPT !.summaryJobs =
                        @ \cup {[of |-> s,
                                 transcript |-> st.transcriptHistoryRef]}]

\* generateContent has settled (resolved or rejected, both go on to the
\* insert): the row is built with callStartTimeRef.current.toISOString() as
\* the ref is now.  With the ref null the expression throws inside the try,
\* the catch logs it and nothing is handed to persistence (saved = FALSE).
SummaryGenerated(s) ==
    /\ Settled
    /\ \E job \in summaryJobs :
          /\ job.of = s
          /\ Commit([State EXCEPT
                         !.summaryJobs = @ \ {job},
                         !.summaryLog =
                             Append(@, [of |-> s,
                                        start |-> callStartTimeRef,
                                        saved |-> callStartTimeRef # 0])])

\* saveCallSummary(techIssue): returns early without a call start time or a
\* patient (the closure's), or for a call shorter than one second; otherwise
\* the summary collaborator is triggered for the call that opened at
\* callStartTimeRef.  cPatient is the patient the calling closure captured,
\* atLeast1s whether a second has elapsed since the call opened.
saveCallSummary(st, cPatient, atLeast1s) ==
    IF st.callStartTimeRef = 0 \/ ~cPatient THEN st
    ELSE IF ~atLeast1s THEN st
    ELSE RequestSummary(
             [st EXCEPT !.summaryTriggers[st.callStartTimeRef] = Bump(@)])

\* "Clear Intervals"
ClearHeartbeat(st) ==
    IF st.heartbeatIntervalRef # 0
    THEN [st EXCEPT !.ticker[st.heartbeatIntervalRef] = "cleared",
                    !.heartbeatIntervalRef = 0]
    ELSE st

\* "Stop active audio sources": source.stop() on every tracked source (its
\* ended event is then pending), and the tracked set is cleared.
StopSources(st) ==
    [st EXCEPT !.src = [k \in Msgs |->
                          IF k \in st.sourcesRef /\ st.src[k] = "playing"
                          THEN "stopped" ELSE st.src[k]],
               !.sourcesRef = {}]

\* "Disconnect ScriptProcessor"
DisconnectProcessor(st) ==
    IF st.scriptProcessorRef # 0
    THEN [st EXCEPT !.proc[st.scriptProcessorRef] = "detached",
                    !.scriptProcessorRef = 0]
    ELSE st

\* "Release Microphone"
ReleaseMicrophone(st) ==
    IF st.mediaStreamRef # 0
    THEN [st EXCEPT !.stream[st.mediaStreamRef] = "stopped",
                    !.mediaStreamRef = 0]
    ELSE st

\* A reset that leaves the start-in-progress flag as it is (not the
\* program's: the operator below is).
StopResetKeepsFlag(st) ==
    [st EXCEPT !.isActive = FALSE, !.botState = "idle",
               !.hangupPendingRef = FALSE,
               !.callStartTimeRef = 0, !.nextStartTimeRef = 0,
               !.transcriptHistoryRef = << >>, !.currentTurnRef = EmptyTurn]

\* "Reset UI & State"
StopReset(st) ==
    [st EXCEPT !.isActive = FALSE, !.botState = "idle",
               !.isStartingRef = FALSE, !.hangupPendingRef = FALSE,
               !.callStartTimeRef = 0, !.nextStartTimeRef = 0,
               !.transcriptHistoryRef = << >>, !.currentTurnRef = EmptyTurn]

\* AudioContext.close(): the context is closed; the returned promise rejects
\* (InvalidStateError) when the context was closed already.
\* if (outputAudioContextRef.current) { await ...close(); ... = null }
StopCloseOutput(st) ==
    IF st.outputAudioContextRef # 0
    THEN LET c == st.outputAudioContextRef IN
         IF st.ctxOut[c] = "closed" THEN Suspend(st, "outErr")
         ELSE Suspend([st EXCEPT !.ctxOut[c] = "closed"], "outOk")
    ELSE StopReset(st)

\* if (inputAudioContextRef.current) { await ...close(); ... = null }
StopCloseInput(st) ==
    IF st.inputAudioContextRef # 0
    THEN LET c == st.inputAudioContextRef IN
         IF st.ctxIn[c] = "closed" THEN Suspend(st, "inErr")
         ELSE Suspend([st EXCEPT !.ctxIn[c] = "closed"], "inOk")
    ELSE StopCloseOutput(st)

\* "Close Socket": if (sessionRef.current) { await sessionRef.current.close() }
\* close() on an open transport starts its closing handshake (onclose follows).
StopCloseSocket(st) ==
    IF st.sessionRef # 0
    THEN LET s == st.sessionRef IN
         Suspend([st EXCEPT !.transport[s] =
                                IF @ = "open" THEN "closing" ELSE @,
                            !.closeCalls[s] = Bump(@),
                            !.releaseLog = Append(@, "transport")], "close")
    ELSE StopCloseInput(st)

\* The guard of stopAssistant, with the isActive its closure captured.
StopGuardReturns(st, cIsActive) == ~cIsActive /\ ~st.isStartingRef

\* The releases of the latest stopAssistant that passed its guard, in the
\* order it made them: a release that changed something is written down.
Logged(before, after, what) ==
    IF after # before
    THEN [after EXCEPT !.releaseLog = Append(@, what)]
    ELSE after

\* stopAssistant up to its first await (or to its end when it meets none).
stopAssistant(st, cIsActive, cPatient, atLeast1s) ==
    IF StopGuardReturns(st, cIsActive) THEN st
    ELSE LET s0 == [st EXCEPT !.releaseLog = << >>]
             s1 == saveCallSummary(s0, cPatient, atLeast1s)
             s2 == Logged(s1, ClearHeartbeat(s1), "ticker")
             s3 == Logged(s2, StopSources(s2), "playback")
             s4 == Logged(s3, DisconnectProcessor(s3), "processor")
             s5 == Logged(s4, ReleaseMicrophone(s4), "microphone")
         IN StopCloseSocket(s5)

\* An action may invoke stopAssistant when the invocation returns at its
\* guard or a suspended invocation can still be represented.
CanStop(st, cIsActive) ==
    StopGuardReturns(st, cIsActive) \/ StopsInFlight(st) < MaxStops

\* Continuations of a suspended stopAssistant.
StopAfterSocketClose ==
    /\ stopsAt["close"] > 0
    /\ Commit(StopCloseInput(
                 [Resume(State, "close") EXCEPT
                      !.sessionRef = 0,
                      !.releaseLog = Append(@, "handle")]))

StopAfterInputClose ==
    /\ Settled /\ stopsAt["inOk"] > 0
    /\ Commit(StopCloseOutput(
                 [Resume(State, "inOk") EXCEPT !.inputAudioContextRef = 0]))

\* catch (e) { console.warn(...) }: the output context is skipped
StopAfterInputCloseRejected ==
    /\ Settled /\ stopsAt["inErr"] > 0
    /\ Commit(StopReset(Resume(State, "inErr")))

StopAfterOutputClose ==
    /\ Settled /\ stopsAt["outOk"] > 0
    /\ Commit(StopReset(
                 [Resume(State, "outOk") EXCEPT !.outputAudioContextRef = 0]))

StopAfterOutputCloseRejected ==
    /\ Settled /\ stopsAt["outErr"] > 0
    /\ Commit(StopReset(Resume(State, "outErr")))

\* ------------------------------------------------------------------------
\* React: render commit, effect cleanup, and the UI handlers
\* ------------------------------------------------------------------------

\* A render commits the latest state.  stopAssistant is memoised on
\* [isActive, patient] and the effect on [stopAssistant]: when isActive
\* changed, the previous effect's cleanup calls the previous stopAssistant,
\* whose closure holds the previously rendered isActive.
Render ==
    /\ isActive # rIsActive /\ ~MicrotaskPending
    /\ CanStop(State, rIsActive)
    /\ \E atLeast1s \in BOOLEAN :
          Commit([stopAssistant(State, rIsActive, TRUE, atLeast1s)
                     EXCEPT !.rIsActive = isActive])

\* "End Call" (rendered while isActive): onClick={() => stopAssistant()}
UserStop ==
    /\ HasBudget /\ rIsActive
    /\ CanStop(State, rIsActive)
    /\ \E atLeast1s \in BOOLEAN :
          Commit(stopAssistant(Input(State), rIsActive, TRUE, atLeast1s))

\* ------------------------------------------------------------------------
\* src/unnamed/part_003: startAssistant and the transport callbacks
\* ------------------------------------------------------------------------

\* What the callbacks created by a startAssistant call captured.  The call
\* comes from the "Connect to Maya" button, rendered only under !isActive with
\* a patient, so its closure (and the stopAssistant it holds) has
\* isActive = false and a patient.
CallbackIsActive == FALSE
CallbackPatient == TRUE

\* startAssistant, from the click to the first await (inCtx.resume()).  A
\* call that finds isStartingRef set returns at once.  (The closure's
\* isActive is false, so "if (isActive) await stopAssistant()" is skipped.)
StartGuardReturns(st) == st.isStartingRef

StartAssistant ==
    /\ HasBudget /\ ~rIsActive
    /\ nCalls < MaxSessions
    /\ LET s == nCalls + 1 IN
       IF StartGuardReturns(State)
       THEN Commit([Input(State) EXCEPT !.nCalls = s, !.startPc[s] = "rejected"])
       ELSE Commit([Input(State) EXCEPT !.nCalls = s,
                                 !.isStartingRef = TRUE,
                                 !.isActive = TRUE,
                                 !.botState = "processing",
                                 !.ctxIn[s] = "running",
                                 !.ctxOut[s] = "running",
                                 !.startPc[s] = "resume"])

\* after "await inCtx.resume(); await outCtx.resume()": the two contexts are
\* stored in their refs and getUserMedia is requested
StartAfterResume(s) ==
    /\ Settled /\ startPc[s] = "resume"
    /\ Commit([State EXCEPT !.inputAudioContextRef = s,
                            !.outputAudioContextRef = s,
                            !.startPc[s] = "gum"])

\* getUserMedia resolved: the stream is stored and ai.live.connect is called
StartAfterGetUserMedia(s) ==
    /\ Settled /\ startPc[s] = "gum"
    /\ Commit([State EXCEPT !.stream[s] = "live",
                            !.mediaStreamRef = s,
                            !.transport[s] = "connecting",
                            !.startPc[s] = "connect"])

\* getUserMedia rejected (permission denied): catch { setError; stopAssistant(true) }
StartGetUserMediaRejected(s) ==
    /\ HasBudget /\ startPc[s] = "gum"
    /\ CanStop(State, CallbackIsActive)
    /\ \E atLeast1s \in BOOLEAN :
          Commit(stopAssistant([Input(State) EXCEPT !.startPc[s] = "failed"],
                               CallbackIsActive, CallbackPatient, atLeast1s))

\* onopen: call start time, phase, heartbeat interval, capture pipeline
OnOpen(s) ==
    /\ Settled /\ transport[s] = "connecting"
    /\ startPc[s] = "connect"
    /\ Commit([State EXCEPT !.transport[s] = "open",
                            !.callStartTimeRef = s,
                            !.botState = "listening",
                            !.ticker[s] = "armed",
                            !.heartbeatIntervalRef = s,
                            !.proc[s] = "attached",
                            !.scriptProcessorRef = s,
                            !.startPc[s] = "opened"])

\* sessionRef.current = await sessionPromise (resolves after onopen)
ConnectResolved(s) ==
    /\ startPc[s] = "opened"
    /\ Commit([State EXCEPT !.sessionRef = s, !.startPc[s] = "done"])

\* onerror: setError(...); stopAssistant(true).  The failed connection then
\* closes (onclose follows).
OnError(s) ==
    /\ HasBudget /\ transport[s] \in {"connecting", "open"}
    /\ CanStop(State, CallbackIsActive)
    /\ \E atLeast1s \in BOOLEAN :
          Commit(stopAssistant([Input(State) EXCEPT !.transport[s] = "failing"],
                               CallbackIsActive, CallbackPatient, atLeast1s))

\* the remote endpoint closes the connection; onclose is then delivered
RemoteClose(s) ==
    /\ HasBudget /\ transport[s] = "open"
    /\ Commit([Input(State) EXCEPT !.transport[s] = "remoteClosing"])

\* onclose: if (isActive) stopAssistant()
OnCloseHandler(st, atLeast1s) ==
    IF CallbackIsActive
    THEN stopAssistant(st, CallbackIsActive, CallbackPatient, atLeast1s)
    ELSE st

OnClose(s) ==
    /\ Settled /\ transport[s] \in {"closing", "failing", "remoteClosing"}
    /\ CallbackIsActive => CanStop(State, CallbackIsActive)
    /\ \E atLeast1s \in BOOLEAN :
          Commit(OnCloseHandler([State EXCEPT !.transport[s] = "closed"],
                                atLeast1s))

\* A send on a transport that is not open puts nothing on the wire.  It is
\* counted when the transport has reported an error or a close that no
\* close() of the program asked for.
EndedUnasked(st, s) ==
    st.transport[s] \in {"failing", "closed"} /\ st.closeCalls[s] = 0

SendOnEnded(st, s) ==
    IF EndedUnasked(st, s) THEN [st EXCEPT !.lateSends[s] = Bump(@)] ELSE st

\* new Uint8Array(int16.buffer).byteLength for a frame of n samples
PcmBytes(n) == n * BytesPerSample

\* A send that puts the frame in front of the messages sent before it (not
\* the program's: the operator below is).
SendRealtimeInputFirst(st, s, frame) ==
    IF st.transport[s] = "open"
    THEN [st EXCEPT !.audioOut[s] =
                        << [frame |-> frame,
                            bytes |-> PcmBytes(FrameSamples)] >> \o @]
    ELSE SendOnEnded(st, s)

\* sessionPromise.then(s => s.sendRealtimeInput({ media: pcmBlob }))
SendRealtimeInput(st, s, frame) ==
    IF st.transport[s] = "open"
    THEN [st EXCEPT !.audioOut[s] =
                        Append(@, [frame |-> frame,
                                   bytes |-> PcmBytes(FrameSamples)])]
    ELSE SendOnEnded(st, s)

\* scriptProcessor.onaudioprocess: the processor of session s, connected in
\* a running input context, hands over its next frame, which is converted
\* to 16-bit PCM, encoded and sent
OnAudioProcess(s) ==
    /\ Settled /\ proc[s] = "attached" /\ ctxIn[s] = "running"
    /\ captured[s] < MaxFrames
    /\ Commit(SendRealtimeInput([State EXCEPT !.captured[s] = @ + 1],
                                s, captured[s] + 1))

\* ------------------------------------------------------------------------
\* src/unnamed/part_003: onmessage
\* ------------------------------------------------------------------------

\* A message is delivered on an open transport.
CanReceive(s) == HasBudget /\ transport[s] = "open" /\ nMsgs < MaxMsgs

\* outputTranscription / inputTranscription: the fragment is appended to the
\* pending turn of its speaker (a fragment's text is the session it came from)
OnTranscription(s, who) ==
    /\ CanReceive(s)
    /\ Commit([Input(State) EXCEPT !.nMsgs = @ + 1,
                            !.currentTurnRef[who] = Append(@, s)])

\* turnComplete: the pending turn is pushed, user entry first, then reset
PushTurn(hist, turn) ==
    LET h1 == IF turn.user # << >>
              THEN Append(hist, [role |-> "user", text |-> turn.user])
              ELSE hist
    IN IF turn.maya # << >>
       THEN Append(h1, [role |-> "maya", text |-> turn.maya])
       ELSE h1

OnTurnComplete(s) ==
    /\ CanReceive(s)
    /\ Commit([Input(State) EXCEPT !.nMsgs = @ + 1,
                            !.transcriptHistoryRef = PushTurn(@, currentTurnRef),
                            !.currentTurnRef = EmptyTurn])

\* A scheduler that starts every chunk at the playback clock, and one whose
\* cursor never advances (not the program's: the two operators below are).
ClampDropsCursor(cursor, now) == now
AdvanceStuck(cursor, d) == cursor

\* Math.max(nextStartTimeRef.current, ctx.currentTime)
ClampToClock(cursor, now) == IF cursor >= now THEN cursor ELSE now

\* nextStartTimeRef.current += buffer.duration
AdvanceCursor(cursor, d) == cursor + d

\* modelTurn audio with an output context present: the phase becomes
\* speaking, the cursor is clamped to the playback clock and the handler
\* awaits decodeAudioData.  d is the duration of the decoded buffer.
AudioChunk(s, durations) ==
    /\ CanReceive(s)
    /\ IF outputAudioContextRef # 0
       THEN \E d \in durations :
            Commit([Input(State) EXCEPT
                        !.nMsgs = @ + 1,
                        !.botState = "speaking",
                        !.nextStartTimeRef = ClampToClock(@, clock),
                        !.src[nMsgs + 1] = "decoding",
                        !.play[nMsgs + 1] = [NoPlay EXCEPT !.sess = s,
                                                           !.dur = d]])
       ELSE Commit([Input(State) EXCEPT !.nMsgs = @ + 1])

OnAudioChunk(s) == AudioChunk(s, Durations)

\* new Int16Array(data.buffer) throws a RangeError when the byte length of
\* the buffer is not a multiple of the element size
Int16ViewThrows(nBytes) == nBytes % BytesPerSample # 0

\* the byte lengths of an inbound payload
PayloadLengths == 1..(BytesPerSample * MaxSamples)

\* modelTurn audio whose payload has nBytes bytes, in a message that also
\* carries the tool calls `calls` (possibly none), with the constructor
\* throwing: the phase has become speaking and the cursor has been clamped
\* when decodeAudioData is called; its promise rejects, the await throws and
\* onmessage ends there, before the source is created and before the
\* tool-call loop (356-363).  Nothing catches the rejection.
OnAudioChunkMalformed(s, nBytes, calls) ==
    /\ CanReceive(s) /\ outputAudioContextRef # 0
    /\ Int16ViewThrows(nBytes)
    /\ Commit([Input(State) EXCEPT
                   !.nMsgs = @ + 1,
                   !.botState = "speaking",
                   !.nextStartTimeRef = ClampToClock(@, clock),
                   !.src[nMsgs + 1] = "dropped",
                   !.dropped = @ \cup {[msg |-> nMsgs + 1, sess |-> s,
                                        bytes |-> nBytes, calls |-> calls]}])

\* after the await: the source is created, started at the cursor and
\* tracked, and the cursor advances by the duration of the buffer
OnAudioDecoded(k) ==
    /\ src[k] = "decoding"
    /\ Commit([State EXCEPT
                   !.src[k] = "playing",
                   !.play[k] = [@ EXCEPT !.start = nextStartTimeRef,
                                         !.at = clock],
                   !.nextStartTimeRef = AdvanceCursor(@, play[k].dur),
                   !.sourcesRef = @ \cup {k}])

\* source.onended (the buffer played to its end, which the playback clock
\* has then reached, or source.stop() was called): the source is removed
\* and a 400 ms drain check is armed
PlayedOut(st, k) ==
    IF st.src[k] = "playing"
    THEN LET end == st.play[k].start + st.play[k].dur IN
         [st EXCEPT !.clock = IF @ < end THEN end ELSE @]
    ELSE st

SourceEnded(k) ==
    /\ Settled /\ src[k] \in {"playing", "stopped"}
    /\ Commit([PlayedOut(State, k) EXCEPT
                   !.src[k] = "ended",
                   !.sourcesRef = @ \ {k},
                   !.drainTimers = @ + 1])

\* the playback clock (ctx.currentTime) advances.  Only the audio branch of
\* onmessage reads it, so it is advanced while a chunk can still arrive.
Tick ==
    /\ Settled /\ clock < MaxClock
    /\ inputs > 0 /\ nMsgs < MaxMsgs /\ outputAudioContextRef # 0
    /\ \E s \in Sessions : transport[s] = "open"
    /\ Commit([State EXCEPT !.clock = @ + 1])

\* the drain check: if (size === 0) { setBotState('listening');
\*                                    if (hangupPendingRef.current) stopAssistant() }
DrainCheckHandler(st, atLeast1s) ==
    IF st.sourcesRef = {}
    THEN LET s1 == [st EXCEPT !.botState = "listening"] IN
         IF s1.hangupPendingRef
         THEN stopAssistant(s1, CallbackIsActive, CallbackPatient, atLeast1s)
         ELSE s1
    ELSE st

DrainCheck ==
    /\ Settled /\ drainTimers > 0
    /\ (sourcesRef = {} /\ hangupPendingRef) => CanStop(State, CallbackIsActive)
    /\ \E atLeast1s \in BOOLEAN :
          Commit(DrainCheckHandler([State EXCEPT !.drainTimers = @ - 1],
                                   atLeast1s))

\* ---- the tool-call loop
\*   for (const fc of functionCalls) {
\*     const result = await toolHandlers[fc.name]?.(fc.args);
\*     sessionPromise.then(s => s.sendToolResponse({ id, name, result })) }

ToolNames == {"hang_up", "get_doctors"}
Batches == UNION {[1..n -> ToolNames] : n \in 1..MaxBatch}

\* A hang_up handler that closes the transport itself (not the program's:
\* the operator below is).
CallHandlerClosing(st, name) ==
    IF name = "hang_up"
    THEN [st EXCEPT !.hangupPendingRef = TRUE,
                    !.transport[st.tool.sess] = "closing",
                    !.closeCalls[st.tool.sess] = Bump(@)]
    ELSE st

\* The synchronous part of a handler, run when the loop calls it: hang_up
\* sets the deferral flag; the query handlers only start their request.
CallHandler(st, name) ==
    IF name = "hang_up" THEN [st EXCEPT !.hangupPendingRef = TRUE] ELSE st

\* A handler that can reject: get_doctors has no try/catch around its query.
CanReject(name) == name = "get_doctors"

OnToolCall(s, calls) ==
    /\ CanReceive(s) /\ tool = NoTool
    /\ Commit(CallHandler(
           [Input(State) EXCEPT !.nMsgs = @ + 1,
                         !.tool = [sess |-> s, msg |-> nMsgs + 1,
                                   calls |-> calls, idx |-> 1]],
           calls[1]))

\* sendToolResponse on the session of the call: it goes out if the transport
\* is still open
SendToolResponse(st, s, id, name) ==
    IF st.transport[s] = "open"
    THEN [st EXCEPT !.sent[s] = Append(@, [id |-> id, name |-> name])]
    ELSE SendOnEnded(st, s)

\* the awaited handler returned: its response is sent and the loop goes on
ToolHandlerReturned ==
    /\ tool # NoTool
    /\ Settled \/ tool.calls[tool.idx] = "hang_up"
    /\ LET i == tool.idx
           s1 == SendToolResponse(State, tool.sess, << tool.msg, i >>,
                                  tool.calls[i])
       IN IF i < Len(tool.calls)
          THEN Commit(CallHandler([s1 EXCEPT !.tool.idx = i + 1],
                                  tool.calls[i + 1]))
          ELSE Commit([s1 EXCEPT !.tool = NoTool])

\* the awaited handler rejected: the exception leaves the loop and onmessage
ToolHandlerRejected ==
    /\ Settled /\ tool # NoTool
    /\ CanReject(tool.calls[tool.idx])
    /\ Commit([State EXCEPT !.tool = NoTool])

Next ==
    \/ StartAssistant
    \/ \E s \in Sessions : StartAfterResume(s)
    \/ \E s \in Sessions : StartAfterGetUserMedia(s)
    \/ \E s \in Sessions : StartGetUserMediaRejected(s)
    \/ \E s \in Sessions : OnOpen(s)
    \/ \E s \in Sessions : ConnectResolved(s)
    \/ \E s \in Sessions : OnError(s)
    \/ \E s \in Sessions : RemoteClose(s)
    \/ \E s \in Sessions : OnClose(s)
    \/ StopAfterSocketClose
    \/ StopAfterInputClose
    \/ StopAfterInputCloseRejected
    \/ StopAfterOutputClose
    \/ StopAfterOutputCloseRejected
    \/ Render
    \/ UserStop
    \/ \E s \in Sessions : OnAudioChunk(s)
    \/ \E k \in Msgs : OnAudioDecoded(k)
    \/ \E k \in Msgs : SourceEnded(k)
    \/ DrainCheck

\* The session lifecycle with audio playback: runs of up to MaxInputs inputs
\* in which the transport delivers audio chunks only.
Spec == Init /\ [][Next]_vars

\* One call with a playback clock that also advances between the events:
\* runs of up to MaxSchedInputs inputs, the first of them the Connect click.
\* (With one call no stopAssistant gets past its guard after the first
\* render, so the End Call button and the continuations of stopAssistant
\* have no step in these runs.)
InitSched == Mounted /\ inputs = MaxSchedInputs

NextSched ==
    \/ nCalls = 0 /\ StartAssistant
    \/ \E s \in Sessions : StartAfterResume(s)
    \/ \E s \in Sessions : StartAfterGetUserMedia(s)
    \/ \E s \in Sessions : StartGetUserMediaRejected(s)
    \/ \E s \in Sessions : OnOpen(s)
    \/ \E s \in Sessions : ConnectResolved(s)
    \/ \E s \in Sessions : OnError(s)
    \/ \E s \in Sessions : RemoteClose(s)
    \/ \E s \in Sessions : OnClose(s)
    \/ Render
    \/ \E s \in Sessions : OnAudioChunk(s)
    \/ \E k \in Msgs : OnAudioDecoded(k)
    \/ \E k \in Msgs : SourceEnded(k)
    \/ DrainCheck
    \/ Tick

SpecSched == InitSched /\ [][NextSched]_vars

NextTools ==
    \/ Next
    \/ \E s \in Sessions, who \in {"user", "maya"} : OnTranscription(s, who)
    \/ \E s \in Sessions : OnTurnComplete(s)
    \/ \E s \in Sessions, calls \in Batches : OnToolCall(s, calls)
    \/ ToolHandlerReturned
    \/ ToolHandlerRejected

\* The same with every kind of inbound message (transcriptions, turn
\* completion, tool calls), in runs of up to MaxToolInputs inputs.
SpecTools == InitTools /\ [][NextTools]_vars

\* The session lifecycle without inbound messages.
NextLifecycle ==
    \/ \E s \in Sessions : StartAfterResume(s)
    \/ \E s \in Sessions : StartAfterGetUserMedia(s)
    \/ \E s \in Sessions : StartGetUserMediaRejected(s)
    \/ \E s \in Sessions : OnOpen(s)
    \/ \E s \in Sessions : ConnectResolved(s)
    \/ \E s \in Sessions : OnError(s)
    \/ \E s \in Sessions : RemoteClose(s)
    \/ \E s \in Sessions : OnClose(s)
    \/ StopAfterSocketClose
    \/ StopAfterInputClose
    \/ StopAfterInputCloseRejected
    \/ StopAfterOutputClose
    \/ StopAfterOutputCloseRejected
    \/ Render

\* the calls before the latest one have ended: none of them is acquiring,
\* none has a transport connecting or open, and no stopAssistant is suspended
EarlierCallsOver ==
    /\ StopsInFlight(State) = 0
    /\ \A s \in Sessions :
          s < nCalls => /\ startPc[s] \notin {"resume", "gum", "connect", "opened"}
                        /\ transport[s] \notin {"connecting", "open"}

\* 'Connect to Maya' is clicked while at most the latest call is in progress
StartOverLatest == EarlierCallsOver /\ StartAssistant

\* Restarts, in runs of up to MaxRestartInputs inputs (clicks, rejected
\* permissions, transport errors, remote closes): a call is started while at
\* most one other is in progress.
InitRestart == Mounted /\ inputs = MaxRestartInputs
NextRestart == StartOverLatest \/ NextLifecycle \/ UserStop
SpecRestart == InitRestart /\ [][NextRestart]_vars

\* The session lifecycle with transcriptions and turn completions only, in
\* runs of up to MaxTranscriptInputs inputs.
InitTranscript == Mounted /\ inputs = MaxTranscriptInputs

NextTranscript ==
    \/ StartAssistant
    \/ NextLifecycle
    \/ UserStop
    \/ \E s \in Sessions, who \in {"user", "maya"} : OnTranscription(s, who)
    \/ \E s \in Sessions : OnTurnComplete(s)

SpecTranscript == InitTranscript /\ [][NextTranscript]_vars

\* ------------------------------------------------------------------------
\* src/App.tsx: encode, decode
\* ------------------------------------------------------------------------

\* 16-bit samples the buffers are drawn from, and the buffers
SampleValues == {-32768, -255, -1, 0, 1, 32767}
SampleSeqs == UNION {[1..n -> SampleValues] : n \in 0..MaxSamples}

\* new Uint8Array(int16.buffer): the bytes of the samples, low byte first
Int16Bytes(samples) ==
    [i \in 1..(2 * Len(samples)) |->
        LET u == samples[(i + 1) \div 2] % 65536 IN
        IF i % 2 = 1 THEN u % 256 ELSE u \div 256]

\* new Int16Array(data.buffer): the samples held in the bytes
Int16View(bytes) ==
    [i \in 1..(Len(bytes) \div 2) |->
        LET u == bytes[2 * i - 1] + 256 * bytes[2 * i] IN
        IF u >= 32768 THEN u - 65536 ELSE u]

\* base64: an alphabet of 64 digits, here the numbers 0..63, and the pad
Pad == 64

\* btoa on one group of up to three characters
BtoaGroup(g) ==
    LET b2 == IF Len(g) >= 2 THEN g[2] ELSE 0
        b3 == IF Len(g) >= 3 THEN g[3] ELSE 0
        n == g[1] * 65536 + b2 * 256 + b3
        c1 == n \div 262144
        c2 == (n \div 4096) % 64
        c3 == (n \div 64) % 64
        c4 == n % 64
    IN IF Len(g) >= 3 THEN << c1, c2, c3, c4 >>
       ELSE IF Len(g) = 2 THEN << c1, c2, c3, Pad >>
       ELSE << c1, c2, Pad, Pad >>

RECURSIVE Btoa(_)
Btoa(binary) ==
    IF Len(binary) <= 3
    THEN IF binary = << >> THEN << >> ELSE BtoaGroup(binary)
    ELSE BtoaGroup(SubSeq(binary, 1, 3))
             \o Btoa(SubSeq(binary, 4, Len(binary)))

\* atob on one group of four digits
AtobGroup(q) ==
    LET v(c) == IF c = Pad THEN 0 ELSE c
        n == v(q[1]) * 262144 + v(q[2]) * 4096 + v(q[3]) * 64 + v(q[4])
        b == << n \div 65536, (n \div 256) % 256, n % 256 >>
    IN IF q[3] = Pad THEN SubSeq(b, 1, 1)
       ELSE IF q[4] = Pad THEN SubSeq(b, 1, 2)
       ELSE b

RECURSIVE Atob(_)
Atob(base64) ==
    IF base64 = << >> THEN << >>
    ELSE AtobGroup(SubSeq(base64, 1, 4))
             \o Atob(SubSeq(base64, 5, Len(base64)))

\* binary += String.fromCharCode(bytes[i]); return btoa(binary)
encode(bytes) == Btoa([i \in 1..Len(bytes) |-> bytes[i]])

\* A decode that keeps seven bits of each character (not the program's: the
\* operator below is).
decodeSevenBit(base64) ==
    LET binaryString == Atob(base64) IN
    [i \in 1..Len(binaryString) |-> binaryString[i] % 128]

\* bytes[i] = binaryString.charCodeAt(i), stored in a Uint8Array
decode(base64) ==
    LET binaryString == Atob(base64) IN
    [i \in 1..Len(binaryString) |-> binaryString[i] % 256]

\* a buffer of 16-bit samples is handed over
CodecInput ==
    /\ codec.pc = "idle"
    /\ \E x \in SampleSeqs :
          Commit([State EXCEPT !.codec = [NoCodec EXCEPT
                                             !.pc = "input",
                                             !.samples = x,
                                             !.bytes = Int16Bytes(x)]])

CodecEncode ==
    /\ codec.pc = "input"
    /\ Commit([State EXCEPT !.codec.pc = "encoded",
                            !.codec.wire = encode(codec.bytes)])

CodecDecode ==
    /\ codec.pc = "encoded"
    /\ Commit([State EXCEPT !.codec.pc = "decoded",
                            !.codec.out = decode(codec.wire)])

\* encode and decode applied to every buffer of up to MaxSamples samples
InitCodec == Mounted /\ inputs = 0
NextCodec == CodecInput \/ CodecEncode \/ CodecDecode
SpecCodec == InitCodec /\ [][NextCodec]_vars

\* ---- onaudioprocess: quantization of the captured samples

\* the factor of `inputData[i] * 32768`
Int16Scale == 32768

\* Captured samples in [-1.0, 1.0]: the sample n / SampleSteps is held as its
\* numerator n; frames of up to MaxSamples samples.
FloatSamples == (0 - SampleSteps)..SampleSteps
FloatFrames == UNION {[1..n -> FloatSamples] : n \in 0..MaxSamples}

\* the integer part of n * Int16Scale / SampleSteps (rounded towards zero)
Truncated(n) ==
    IF n >= 0 THEN (n * Int16Scale) \div SampleSteps
    ELSE 0 - (((0 - n) * Int16Scale) \div SampleSteps)

\* a number stored in an Int16Array element: its integer part modulo 2^16,
\* read as a signed 16-bit value
ToInt16(x) ==
    LET u == x % 65536 IN IF u >= 32768 THEN u - 65536 ELSE u

\* int16[i] = inputData[i] * 32768
Quantize(n) == ToInt16(Truncated(n))

\* e.inputBuffer.getChannelData(0)
PcmCapture ==
    /\ pcm.pc = "idle"
    /\ \E x \in FloatFrames :
          Commit([State EXCEPT !.pcm = [NoPcm EXCEPT !.pc = "captured",
                                                    !.inputData = x]])

\* the loop over inputData
PcmQuantize ==
    /\ pcm.pc = "captured"
    /\ Commit([State EXCEPT
          !.pcm.pc = "quantized",
          !.pcm.int16 = [i \in 1..Len(pcm.inputData) |->
                            Quantize(pcm.inputData[i])]])

\* the quantization applied to every frame of up to MaxSamples samples
InitQuantize == Mounted /\ inputs = 0
NextQuantize == PcmCapture \/ PcmQuantize
SpecQuantize == InitQuantize /\ [][NextQuantize]_vars

\* One call, as in NextSched without the clock.
NextOneCall ==
    \/ nCalls = 0 /\ StartAssistant
    \/ \E s \in Sessions : StartAfterResume(s)
    \/ \E s \in Sessions : StartAfterGetUserMedia(s)
    \/ \E s \in Sessions : StartGetUserMediaRejected(s)
    \/ \E s \in Sessions : OnOpen(s)
    \/ \E s \in Sessions : ConnectResolved(s)
    \/ \E s \in Sessions : OnError(s)
    \/ \E s \in Sessions : RemoteClose(s)
    \/ \E s \in Sessions : OnClose(s)
    \/ Render
    \/ \E s \in Sessions : OnAudioChunk(s)
    \/ \E k \in Msgs : OnAudioDecoded(k)
    \/ \E k \in Msgs : SourceEnded(k)
    \/ DrainCheck

\* One call with the capture pipeline: runs of up to MaxCaptureInputs inputs
\* and MaxFrames captured frames.
InitCapture == Mounted /\ inputs = MaxCaptureInputs
NextCapture == NextOneCall \/ \E s \in Sessions : OnAudioProcess(s)
SpecCapture == InitCapture /\ [][NextCapture]_vars

\* One call with tool calls: runs of up to MaxHangUpInputs inputs.
InitHangUp == Mounted /\ inputs = MaxHangUpInputs

NextHangUp ==
    \/ NextOneCall
    \/ \E s \in Sessions, calls \in Batches : OnToolCall(s, calls)
    \/ ToolHandlerReturned
    \/ ToolHandlerRejected

SpecHangUp == InitHangUp /\ [][NextHangUp]_vars

\* One call with tool calls and inbound audio that may be malformed: runs of
\* up to MaxDecodeInputs inputs.
InitDecode == Mounted /\ inputs = MaxDecodeInputs

NextDecode ==
    \/ NextHangUp
    \/ \E s \in Sessions, n \in PayloadLengths, calls \in Batches \cup {<< >>} :
          OnAudioChunkMalformed(s, n, calls)

SpecDecode == InitDecode /\ [][NextDecode]_vars

\* ------------------------------------------------------------------------
\* src/App.tsx, third component: synchronous stopAssistant, hang_up with a
\* 5 s fallback timer, drain check inside onended
\* ------------------------------------------------------------------------

\* saveCallSummary(techIssue): returns early without a call start time or a
\* patient; there is no minimum duration in this variant
saveCallSummaryApp(st, cPatient) ==
    IF st.callStartTimeRef = 0 \/ ~cPatient THEN st
    ELSE RequestSummary(
             [st EXCEPT !.summaryTriggers[st.callStartTimeRef] = Bump(@)])

\* if (sessionRef.current) { try { sessionRef.current.close() } catch {}; = null }
CloseSocketApp(st) ==
    IF st.sessionRef # 0
    THEN [st EXCEPT !.transport[st.sessionRef] =
                        IF @ = "open" THEN "closing" ELSE @,
                    !.closeCalls[st.sessionRef] = Bump(@),
                    !.sessionRef = 0]
    ELSE st

\* if (ctxRef.current) { ctxRef.current.close().catch(() => {}); = null }
CloseContextsApp(st) ==
    LET s1 == IF st.inputAudioContextRef # 0
              THEN [st EXCEPT !.ctxIn[st.inputAudioContextRef] = "closed",
                              !.inputAudioContextRef = 0]
              ELSE st
    IN IF s1.outputAudioContextRef # 0
       THEN [s1 EXCEPT !.ctxOut[s1.outputAudioContextRef] = "closed",
                       !.outputAudioContextRef = 0]
       ELSE s1

\* stopAssistant: no guard and no await; it runs to its end in one step.
\* (currentTurnRef is not reset here.)
stopAssistantApp(st) ==
    LET s1 == saveCallSummaryApp(st, TRUE)
        s2 == ReleaseMicrophone(DisconnectProcessor(StopSources(s1)))
        s3 == CloseContextsApp(CloseSocketApp(s2))
    IN [s3 EXCEPT !.isActive = FALSE, !.botState = "idle",
                  !.isStartingRef = FALSE, !.hangupPendingRef = FALSE,
                  !.callStartTimeRef = 0, !.transcriptHistoryRef = << >>]

\* stopAssistant is memoised on [addLog, patient]: a render that commits
\* isActive does not change it, so no effect cleanup runs.
RenderApp ==
    /\ isActive # rIsActive /\ ~MicrotaskPending
    /\ Commit([State EXCEPT !.rIsActive = isActive])

\* "End Call" (rendered while isActive): onClick={() => stopAssistant()}
UserStopApp ==
    /\ HasBudget /\ rIsActive
    /\ Commit(stopAssistantApp(Input(State)))

\* startAssistant from the click to "await getUserMedia": the contexts are
\* created and stored in their refs at once
StartAssistantApp ==
    /\ HasBudget /\ ~rIsActive
    /\ nCalls < MaxSessions
    /\ LET s == nCalls + 1 IN
       IF StartGuardReturns(State)
       THEN Commit([Input(State) EXCEPT !.nCalls = s, !.startPc[s] = "rejected"])
       ELSE Commit([Input(State) EXCEPT !.nCalls = s,
                                 !.isStartingRef = TRUE,
                                 !.transcriptHistoryRef = << >>,
                                 !.currentTurnRef = EmptyTurn,
                                 !.isActive = TRUE,
                                 !.botState = "processing",
                                 !.ctxIn[s] = "running",
                                 !.ctxOut[s] = "running",
                                 !.inputAudioContextRef = s,
                                 !.outputAudioContextRef = s,
                                 !.startPc[s] = "gum"])

\* getUserMedia resolved: the stream is stored and ai.live.connect is called
StartAfterGetUserMediaApp(s) == StartAfterGetUserMedia(s)

\* getUserMedia rejected: catch { setError; stopAssistant(true) }
StartGetUserMediaRejectedApp(s) ==
    /\ HasBudget /\ startPc[s] = "gum"
    /\ Commit(stopAssistantApp([Input(State) EXCEPT !.startPc[s] = "failed"]))

\* onopen: call start time, phase, capture pipeline (no heartbeat here)
OnOpenApp(s) ==
    /\ Settled /\ transport[s] = "connecting"
    /\ startPc[s] = "connect"
    /\ Commit([State EXCEPT !.transport[s] = "open",
                            !.callStartTimeRef = s,
                            !.botState = "listening",
                            !.proc[s] = "attached",
                            !.scriptProcessorRef = s,
                            !.startPc[s] = "opened"])

\* sessionRef.current = await sessionPromise
ConnectResolvedApp(s) == ConnectResolved(s)

\* onerror: setError(...); stopAssistant(true)
OnErrorApp(s) ==
    /\ HasBudget /\ transport[s] \in {"connecting", "open"}
    /\ Commit(stopAssistantApp([Input(State) EXCEPT !.transport[s] = "failing"]))

\* onclose: stopAssistant()
OnCloseApp(s) ==
    /\ Settled /\ transport[s] \in {"closing", "failing", "remoteClosing"}
    /\ Commit(stopAssistantApp([State EXCEPT !.transport[s] = "closed"]))

\* modelTurn audio: setBotState('speaking'); await decodeAudioData; the
\* source is started and tracked
\* (nothing in this component reads the start times, so its buffers all get
\* the shortest duration)
OnAudioChunkApp(s) == AudioChunk(s, {1})
OnAudioDecodedApp(k) == OnAudioDecoded(k)

\* An onended that tears down on a pending hang-up without looking at the
\* tracked set (not the program's: the handler below is).
SourceEndedHandlerEager(st, k) ==
    LET s1 == [st EXCEPT !.src[k] = "ended", !.sourcesRef = @ \ {k}] IN
    IF s1.hangupPendingRef THEN stopAssistantApp(s1) ELSE s1

\* source.onended: delete; if (size === 0) { setBotState('listening');
\*                                           if (hangupPendingRef.current) stopAssistant() }
SourceEndedHandlerApp(st, k) ==
    LET s1 == [st EXCEPT !.src[k] = "ended", !.sourcesRef = @ \ {k}] IN
    IF s1.sourcesRef = {}
    THEN LET s2 == [s1 EXCEPT !.botState = "listening"] IN
         IF s2.hangupPendingRef THEN stopAssistantApp(s2) ELSE s2
    ELSE s1

SourceEndedApp(k) ==
    /\ Settled /\ src[k] \in {"playing", "stopped"}
    /\ Commit(SourceEndedHandlerApp(PlayedOut(State, k), k))

\* hang_up: the deferral flag is set and a 5 s fallback timer is armed
\* (hangupTimerOf: the calls whose handler armed the pending timers, oldest
\* first)
CallHandlerApp(st, name) ==
    IF name = "hang_up"
    THEN [st EXCEPT !.hangupPendingRef = TRUE, !.hangupTimers = @ + 1,
                    !.hangupTimerOf = Append(@, st.tool.sess)]
    ELSE st

\* the fallback timer: if (hangupPendingRef.current) stopAssistant()
HangUpTimerApp ==
    /\ Settled /\ hangupTimers > 0
    /\ LET s1 == [State EXCEPT !.hangupTimers = @ - 1,
                               !.hangupTimerOf = Tail(@)] IN
       IF s1.hangupPendingRef THEN Commit(stopAssistantApp(s1)) ELSE Commit(s1)

\* the tool-call loop (same code as in part_003)
BatchesApp == UNION {[1..n -> ToolNames] : n \in 1..MaxAppBatch}

OnToolCallApp(s, calls) ==
    /\ CanReceive(s) /\ tool = NoTool
    /\ Commit(CallHandlerApp(
           [Input(State) EXCEPT !.nMsgs = @ + 1,
                                !.tool = [sess |-> s, msg |-> nMsgs + 1,
                                          calls |-> calls, idx |-> 1]],
           calls[1]))

ToolHandlerReturnedApp ==
    /\ tool # NoTool
    /\ Settled \/ tool.calls[tool.idx] = "hang_up"
    /\ LET i == tool.idx
           s1 == SendToolResponse(State, tool.sess, << tool.msg, i >>,
                                  tool.calls[i])
       IN IF i < Len(tool.calls)
          THEN Commit(CallHandlerApp([s1 EXCEPT !.tool.idx = i + 1],
                                     tool.calls[i + 1]))
          ELSE Commit([s1 EXCEPT !.tool = NoTool])

ToolHandlerRejectedApp == ToolHandlerRejected

NextApp ==
    \/ StartAssistantApp
    \/ \E s \in Sessions : StartAfterGetUserMediaApp(s)
    \/ \E s \in Sessions : StartGetUserMediaRejectedApp(s)
    \/ \E s \in Sessions : OnOpenApp(s)
    \/ \E s \in Sessions : ConnectResolvedApp(s)
    \/ \E s \in Sessions : OnErrorApp(s)
    \/ \E s \in Sessions : RemoteClose(s)
    \/ \E s \in Sessions : OnCloseApp(s)
    \/ RenderApp
    \/ UserStopApp
    \/ \E s \in Sessions : OnAudioChunkApp(s)
    \/ \E k \in Msgs : OnAudioDecodedApp(k)
    \/ \E k \in Msgs : SourceEndedApp(k)
    \/ HangUpTimerApp
    \/ \E s \in Sessions, calls \in BatchesApp : OnToolCallApp(s, calls)
    \/ ToolHandlerReturnedApp
    \/ ToolHandlerRejectedApp

\* The third component of src/App.tsx, in runs of up to MaxAppInputs inputs.
SpecApp == InitApp /\ [][NextApp]_vars

\* outputTranscription / inputTranscription and turnComplete: the same
\* statements as in part_003
OnTranscriptionApp(s, who) == OnTranscription(s, who)
OnTurnCompleteApp(s) == OnTurnComplete(s)

InitSummary == Mounted /\ inputs = MaxSummaryInputs

NextSummary ==
    \/ StartAssistantApp
    \/ \E s \in Sessions : StartAfterGetUserMediaApp(s)
    \/ \E s \in Sessions : StartGetUserMediaRejectedApp(s)
    \/ \E s \in Sessions : OnOpenApp(s)
    \/ \E s \in Sessions : ConnectResolvedApp(s)
    \/ \E s \in Sessions : OnErrorApp(s)
    \/ \E s \in Sessions : RemoteClose(s)
    \/ \E s \in Sessions : OnCloseApp(s)
    \/ RenderApp
    \/ UserStopApp
    \/ \E s \in Sessions, who \in {"user", "maya"} : OnTranscriptionApp(s, who)
    \/ \E s \in Sessions : OnTurnCompleteApp(s)
    \/ \E s \in Sessions : SummaryGenerated(s)

\* The third component of src/App.tsx with transcripts and the call
\* summary, in runs of up to MaxSummaryInputs inputs.
SpecSummary == InitSummary /\ [][NextSummary]_vars

InitCursor == Mounted /\ inputs = MaxCursorInputs

NextCursor ==
    \/ StartAssistantApp
    \/ \E s \in Sessions : StartAfterGetUserMediaApp(s)
    \/ \E s \in Sessions : StartGetUserMediaRejectedApp(s)
    \/ \E s \in Sessions : OnOpenApp(s)
    \/ \E s \in Sessions : ConnectResolvedApp(s)
    \/ \E s \in Sessions : OnErrorApp(s)
    \/ \E s \in Sessions : RemoteClose(s)
    \/ \E s \in Sessions : OnCloseApp(s)
    \/ RenderApp
    \/ UserStopApp
    \/ \E s \in Sessions : OnAudioChunkApp(s)
    \/ \E k \in Msgs : OnAudioDecodedApp(k)
    \/ \E k \in Msgs : SourceEndedApp(k)

InitTimer == Mounted /\ inputs = MaxTimerInputs

NextTimer ==
    \/ StartAssistantApp
    \/ \E s \in Sessions : StartAfterGetUserMediaApp(s)
    \/ \E s \in Sessions : StartGetUserMediaRejectedApp(s)
    \/ \E s \in Sessions : OnOpenApp(s)
    \/ \E s \in Sessions : ConnectResolvedApp(s)
    \/ \E s \in Sessions : OnErrorApp(s)
    \/ \E s \in Sessions : RemoteClose(s)
    \/ \E s \in Sessions : OnCloseApp(s)
    \/ RenderApp
    \/ UserStopApp
    \/ HangUpTimerApp
    \/ \E s \in Sessions, calls \in BatchesApp : OnToolCallApp(s, calls)
    \/ ToolHandlerReturnedApp
    \/ ToolHandlerRejectedApp

\* The third component of src/App.tsx with tool calls and no audio, in runs
\* of up to MaxTimerInputs inputs (enough for a call with a hang_up, its
\* teardown and a second call with a hang_up).
SpecTimer == InitTimer /\ [][NextTimer]_vars

\* The third component of src/App.tsx with audio only, in runs of up to
\* MaxCursorInputs inputs (enough for a call with audio, its teardown and
\* a second call with audio).
SpecCursor == InitCursor /\ [][NextCursor]_vars

\* ------------------------------------------------------------------------
\* src/unnamed/part_005
\* ------------------------------------------------------------------------

\* stopAssistant: the session is closed and forgotten, the two contexts are
\* closed unless closed already and forgotten, the state is reset.  It has
\* no guard and no await; tracked sources and the cursor are left alone.
stopAssistantP5(st) ==
    LET s1 == IF st.sessionRef # 0
              THEN [st EXCEPT !.transport[st.sessionRef] =
                                  IF @ = "open" THEN "closing" ELSE @,
                              !.closeCalls[st.sessionRef] = Bump(@),
                              !.sessionRef = 0]
              ELSE st
        s2 == IF s1.inputAudioContextRef # 0
              THEN [s1 EXCEPT !.ctxIn[s1.inputAudioContextRef] = "closed"]
              ELSE s1
        s3 == IF s2.outputAudioContextRef # 0
              THEN [s2 EXCEPT !.ctxOut[s2.outputAudioContextRef] = "closed"]
              ELSE s2
    IN [s3 EXCEPT !.inputAudioContextRef = 0, !.outputAudioContextRef = 0,
                  !.isActive = FALSE, !.botState = "idle"]

\* stopAssistant is memoised on [addLog]: no render re-creates it, so no
\* effect cleanup runs before unmount.
RenderP5 ==
    /\ isActive # rIsActive /\ ~MicrotaskPending
    /\ Commit([State EXCEPT !.rIsActive = isActive])

\* the End Call button, rendered when isActive
UserStopP5 ==
    /\ HasBudget /\ rIsActive
    /\ Commit(stopAssistantP5(Input(State)))

\* the Connect button, rendered when not isActive: startAssistant up to
\* "await inCtx.resume()"
StartAssistantP5 ==
    /\ HasBudget /\ ~rIsActive
    /\ nCalls < MaxSessions
    /\ LET s == nCalls + 1 IN
       Commit([Input(State) EXCEPT !.nCalls = s,
                                 !.isActive = TRUE,
                                 !.botState = "processing",
                                 !.ctxIn[s] = "running",
                                 !.ctxOut[s] = "running",
                                 !.inputAudioContextRef = s,
                                 !.outputAudioContextRef = s,
                                 !.startPc[s] = "resume"])

\* after the two resume() awaits getUserMedia is requested
StartAfterResumeP5(s) ==
    /\ Settled /\ startPc[s] = "resume"
    /\ Commit([State EXCEPT !.startPc[s] = "gum"])

\* getUserMedia resolved: ai.live.connect is called
StartAfterGetUserMediaP5(s) ==
    /\ Settled /\ startPc[s] = "gum"
    /\ Commit([State EXCEPT !.stream[s] = "live",
                            !.transport[s] = "connecting",
                            !.startPc[s] = "connect"])

\* getUserMedia rejected: catch { setIsActive(false); stopAssistant() }
StartGetUserMediaRejectedP5(s) ==
    /\ HasBudget /\ startPc[s] = "gum"
    /\ Commit(stopAssistantP5([Input(State) EXCEPT !.startPc[s] = "failed",
                                                  !.isActive = FALSE]))

\* onopen: the phase becomes listening and the capture pipeline is attached
OnOpenP5(s) ==
    /\ Settled /\ transport[s] = "connecting"
    /\ startPc[s] = "connect"
    /\ Commit([State EXCEPT !.transport[s] = "open",
                            !.botState = "listening",
                            !.proc[s] = "attached",
                            !.startPc[s] = "opened"])

\* sessionRef.current = await sessionPromise
ConnectResolvedP5(s) == ConnectResolved(s)

\* onerror: setError(...); stopAssistant()
OnErrorP5(s) ==
    /\ HasBudget /\ transport[s] \in {"connecting", "open"}
    /\ Commit(stopAssistantP5([Input(State) EXCEPT !.transport[s] = "failing"]))

\* onclose: stopAssistant()
OnCloseP5(s) ==
    /\ Settled /\ transport[s] \in {"closing", "failing", "remoteClosing"}
    /\ Commit(stopAssistantP5([State EXCEPT !.transport[s] = "closed"]))

\* outputTranscription: the phase becomes processing; inputTranscription:
\* listening
OnTranscriptionP5(s, who) ==
    /\ CanReceive(s)
    /\ Commit([Input(State) EXCEPT
                   !.nMsgs = @ + 1,
                   !.botState = IF who = "maya" THEN "processing"
                                ELSE "listening"])

\* modelTurn audio: the same statements as in part_003 up to onended
OnAudioChunkP5(s) == OnAudioChunk(s)
OnAudioDecodedP5(k) == OnAudioDecoded(k)

\* source.onended: the source is removed from the tracked set
SourceEndedP5(k) ==
    /\ Settled /\ src[k] \in {"playing", "stopped"}
    /\ Commit([PlayedOut(State, k) EXCEPT !.src[k] = "ended",
                                          !.sourcesRef = @ \ {k}])

\* turnComplete: if (sourcesRef.current.size === 0) setBotState('listening')
OnTurnCompleteP5(s) ==
    /\ CanReceive(s)
    /\ Commit([Input(State) EXCEPT
                   !.nMsgs = @ + 1,
                   !.botState = IF sourcesRef = {} THEN "listening" ELSE @])

\* An interruption that leaves the cursor where it was (not the program's:
\* the operator below is).
InterruptedKeepsCursor(st) ==
    [StopSources(st) EXCEPT !.botState = "listening",
                            !.interrupts = Bump(@)]

\* interrupted: every tracked source is stopped, the tracked set is cleared,
\* the cursor is reset and the phase becomes listening
InterruptedHandler(st) ==
    [StopSources(st) EXCEPT !.nextStartTimeRef = 0,
                            !.botState = "listening",
                            !.interrupts = Bump(@)]

OnInterrupted(s) ==
    /\ CanReceive(s) /\ interrupts < MaxCount
    /\ Commit(InterruptedHandler([Input(State) EXCEPT !.nMsgs = @ + 1]))

InitInterrupt == Mounted /\ inputs = MaxInterruptInputs

NextInterrupt ==
    \/ StartAssistantP5
    \/ \E s \in Sessions : StartAfterResumeP5(s)
    \/ \E s \in Sessions : StartAfterGetUserMediaP5(s)
    \/ \E s \in Sessions : StartGetUserMediaRejectedP5(s)
    \/ \E s \in Sessions : OnOpenP5(s)
    \/ \E s \in Sessions : ConnectResolvedP5(s)
    \/ \E s \in Sessions : OnErrorP5(s)
    \/ \E s \in Sessions : RemoteClose(s)
    \/ \E s \in Sessions : OnCloseP5(s)
    \/ RenderP5
    \/ UserStopP5
    \/ \E s \in Sessions, who \in {"user", "maya"} : OnTranscriptionP5(s, who)
    \/ \E s \in Sessions : OnAudioChunkP5(s)
    \/ \E k \in Msgs : OnAudioDecodedP5(k)
    \/ \E k \in Msgs : SourceEndedP5(k)
    \/ \E s \in Sessions : OnTurnCompleteP5(s)
    \/ \E s \in Sessions : OnInterrupted(s)
    \/ Tick

\* src/unnamed/part_005 without tool calls, in runs of up to
\* MaxInterruptInputs inputs.
SpecInterrupt == InitInterrupt /\ [][NextInterrupt]_vars

\* ---- the tool-call loop of part_005
\*   setBotState('processing');
\*   for (const fc of functionCalls) {
\*     if (!fc.name) continue;
\*     const handler = toolHandlers[fc.name];
\*     if (handler) { const result = await handler(fc.args);
\*                    sessionPromise.then(s => { if (s) s.sendToolResponse(...) }) } }

\* the names the endpoint may call: one with a handler in toolHandlers
\* (92-172) and one without (part_005 registers no hang_up)
HandlersP5 == {"get_doctors"}
ToolNamesP5 == HandlersP5 \cup {"hang_up"}
BatchesP5 == UNION {[1..n -> ToolNamesP5] : n \in 1..MaxBatch}

\* the first invocation at or after i that has a handler, Len + 1 if none
NextHandled(calls, i) ==
    LET H == {j \in i..Len(calls) : calls[j] \in HandlersP5} IN
    IF H = {} THEN Len(calls) + 1
    ELSE CHOOSE j \in H : \A k \in H : j <= k

\* the loop from invocation i on, up to its next await: invocations without
\* a handler are passed over (nothing is sent for them; skipped records
\* them), the first one with a handler is called and awaited
LoopFromP5(st, i) ==
    LET n == NextHandled(st.tool.calls, i)
        s1 == [st EXCEPT !.skipped =
                   @ \cup {[sess |-> st.tool.sess, msg |-> st.tool.msg,
                            idx |-> j] : j \in i..(n - 1)}]
    IN IF n > Len(st.tool.calls)
       THEN [s1 EXCEPT !.tool = NoTool]
       ELSE [s1 EXCEPT !.tool.idx = n]

OnToolCallP5(s, calls) ==
    /\ CanReceive(s) /\ tool = NoTool
    /\ Commit(LoopFromP5(
           [Input(State) EXCEPT !.nMsgs = @ + 1,
                         !.botState = "processing",
                         !.tool = [sess |-> s, msg |-> nMsgs + 1,
                                   calls |-> calls, idx |-> 1]],
           1))

\* the awaited handler returned: its response is sent and the loop goes on
ToolHandlerReturnedP5 ==
    /\ Settled /\ tool # NoTool
    /\ Commit(LoopFromP5(
           SendToolResponse(State, tool.sess, << tool.msg, tool.idx >>,
                            tool.calls[tool.idx]),
           tool.idx + 1))

\* the awaited handler rejected (get_doctors awaits its query outside any
\* try): the exception leaves the loop and onmessage
ToolHandlerRejectedP5 == ToolHandlerRejected

InitToolsP5 == Mounted /\ inputs = MaxToolsP5Inputs

NextToolsP5 ==
    \/ NextInterrupt
    \/ \E s \in Sessions, calls \in BatchesP5 : OnToolCallP5(s, calls)
    \/ ToolHandlerReturnedP5
    \/ ToolHandlerRejectedP5

\* src/unnamed/part_005 with tool calls, in runs of up to MaxToolsP5Inputs
\* inputs.
SpecToolsP5 == InitToolsP5 /\ [][NextToolsP5]_vars

\* ------------------------------------------------------------------------
\* src/App.tsx, first component: the booking tool handlers over the
\* doctor_slots and doctor_appointments tables.  The tool loop (281-287)
\* awaits one handler at a time.  Each awaited request resolves with its
\* data ("ok"), resolves with an error object and no effect ("error"), or
\* rejects ("rejected").
\* ------------------------------------------------------------------------

Outcomes == {"ok", "error", "rejected"}

\* `return` of a handler: the result goes to the tool loop
Return(st, result) ==
    [st EXCEPT !.dbCall = NoDbCall,
               !.bookingResults = Append(@, [name |-> st.dbCall.name,
                                             result |-> result])]

\* .update({ is_available: true, booked_by_phone: null, appointment_id: null })
\*   .eq('appointment_id', id)
ReleaseSlotsOf(slots, id) ==
    [k \in SlotIds |-> IF slots[k].appointment_id = id
                       THEN [slots[k] EXCEPT !.is_available = TRUE,
                                             !.booked_by_phone = "null",
                                             !.appointment_id = 0]
                       ELSE slots[k]]

\* .update({ is_available: false, booked_by_phone: patient?.phone,
\*           appointment_id: id }).eq('id', slot_id)
LinkSlot(slots, slot_id, id) ==
    [k \in SlotIds |-> IF k = slot_id
                       THEN [slots[k] EXCEPT !.is_available = FALSE,
                                             !.booked_by_phone = "phone",
                                             !.appointment_id = id]
                       ELSE slots[k]]

\* .update(columns).eq('id', id) on doctor_appointments
UpdateAppointment(appts, id, column, value) ==
    [a \in 1..Len(appts) |-> IF a = id THEN [appts[a] EXCEPT ![column] = value]
                                       ELSE appts[a]]

\* book_appointment is called with a slot id and that slot's time
BookAppointment(slot_id) ==
    /\ HasBudget /\ dbCall = NoDbCall
    /\ Commit([Input(State) EXCEPT
                 !.dbCall = [NoDbCall EXCEPT !.name = "book_appointment",
                                             !.pc = "insert",
                                             !.slot_id = slot_id,
                                             !.time_string = slot_id]])

\* the insert into doctor_appointments resolves
BookInsertResolved(outcome) ==
    /\ dbCall.name = "book_appointment" /\ dbCall.pc = "insert"
    /\ IF outcome = "ok"
       THEN /\ Len(doctor_appointments) < MaxAppointments
            /\ Commit([State EXCEPT
                 !.doctor_appointments =
                     Append(@, [appointment_time |-> dbCall.time_string,
                                status |-> "scheduled"]),
                 !.dbCall.appointment_id = Len(doctor_appointments) + 1,
                 !.dbCall.pc = "update"])
       ELSE Commit(Return(State, "ERROR"))

\* the update of the slot resolves; its error is not looked at
BookUpdateResolved(outcome) ==
    /\ dbCall.name = "book_appointment" /\ dbCall.pc = "update"
    /\ CASE outcome = "ok" ->
             Commit(Return([State EXCEPT
                 !.doctor_slots = LinkSlot(@, dbCall.slot_id,
                                           dbCall.appointment_id)], "SUCCESS"))
         [] outcome = "error" -> Commit(Return(State, "SUCCESS"))
         [] OTHER -> Commit(Return(State, "ERROR"))

CancelAppointment(appointment_id) ==
    /\ HasBudget /\ dbCall = NoDbCall
    /\ Commit([Input(State) EXCEPT
                 !.dbCall = [NoDbCall EXCEPT !.name = "cancel_appointment",
                                             !.pc = "status",
                                             !.appointment_id = appointment_id]])

\* the update of the appointment's status resolves
CancelStatusResolved(outcome) ==
    /\ dbCall.name = "cancel_appointment" /\ dbCall.pc = "status"
    /\ CASE outcome = "ok" ->
             Commit([State EXCEPT
                 !.doctor_appointments =
                     UpdateAppointment(@, dbCall.appointment_id,
                                       "status", "cancelled"),
                 !.dbCall.pc = "release"])
         [] outcome = "error" -> Commit([State EXCEPT !.dbCall.pc = "release"])
         [] OTHER -> Commit(Return(State, "ERROR"))

\* the release of the appointment's slot resolves
CancelReleaseResolved(outcome) ==
    /\ dbCall.name = "cancel_appointment" /\ dbCall.pc = "release"
    /\ CASE outcome = "ok" ->
             Commit(Return([State EXCEPT
                 !.doctor_slots = ReleaseSlotsOf(@, dbCall.appointment_id)],
                 "SUCCESS"))
         [] outcome = "error" -> Commit(Return(State, "SUCCESS"))
         [] OTHER -> Commit(Return(State, "ERROR"))

RescheduleAppointment(appointment_id, new_slot_id) ==
    /\ HasBudget /\ dbCall = NoDbCall
    /\ Commit([Input(State) EXCEPT
                 !.dbCall = [NoDbCall EXCEPT !.name = "reschedule_appointment",
                                             !.pc = "select",
                                             !.appointment_id = appointment_id,
                                             !.slot_id = new_slot_id]])

\* select('start_time').eq('id', new_slot_id).single() resolves: `slot` is
\* the row, or null when there is no such row or the request failed
RescheduleSelectResolved(outcome) ==
    /\ dbCall.name = "reschedule_appointment" /\ dbCall.pc = "select"
    /\ CASE outcome = "ok" ->
             Commit([State EXCEPT
                 !.dbCall.slot = IF dbCall.slot_id \in SlotIds
                                 THEN doctor_slots[dbCall.slot_id].start_time
                                 ELSE 0,
                 !.dbCall.pc = "release"])
         [] outcome = "error" -> Commit([State EXCEPT !.dbCall.pc = "release"])
         [] OTHER -> Commit(Return(State, "ERROR"))

\* the release of the old slot resolves; building the next request reads
\* slot.start_time, which throws when slot is null
RescheduleReleaseResolved(outcome) ==
    /\ dbCall.name = "reschedule_appointment" /\ dbCall.pc = "release"
    /\ LET released ==
               IF outcome = "ok"
               THEN [State EXCEPT
                       !.doctor_slots = ReleaseSlotsOf(@, dbCall.appointment_id)]
               ELSE State
       IN  IF outcome = "rejected" \/ dbCall.slot = 0
           THEN Commit(Return(released, "ERROR"))
           ELSE Commit([released EXCEPT !.dbCall.pc = "time"])

\* the update of the appointment's time resolves
RescheduleTimeResolved(outcome) ==
    /\ dbCall.name = "reschedule_appointment" /\ dbCall.pc = "time"
    /\ CASE outcome = "ok" ->
             Commit([State EXCEPT
                 !.doctor_appointments =
                     UpdateAppointment(@, dbCall.appointment_id,
                                       "appointment_time", dbCall.slot),
                 !.dbCall.pc = "link"])
         [] outcome = "error" -> Commit([State EXCEPT !.dbCall.pc = "link"])
         [] OTHER -> Commit(Return(State, "ERROR"))

\* the update of the new slot resolves
RescheduleLinkResolved(outcome) ==
    /\ dbCall.name = "reschedule_appointment" /\ dbCall.pc = "link"
    /\ CASE outcome = "ok" ->
             Commit(Return([State EXCEPT
                 !.doctor_slots = LinkSlot(@, dbCall.slot_id,
                                           dbCall.appointment_id)], "SUCCESS"))
         [] outcome = "error" -> Commit(Return(State, "SUCCESS"))
         [] OTHER -> Commit(Return(State, "ERROR"))

\* Runs of up to MaxBookingInputs tool calls on tables whose slots are all
\* free and that hold no appointment.
InitBooking == Mounted /\ inputs = MaxBookingInputs

NextBooking ==
    \/ \E slot_id \in SlotIds \cup {NoSuchSlot} : BookAppointment(slot_id)
    \/ \E outcome \in Outcomes : BookInsertResolved(outcome)
    \/ \E outcome \in Outcomes : BookUpdateResolved(outcome)
    \/ \E id \in AppointmentIds : CancelAppointment(id)
    \/ \E outcome \in Outcomes : CancelStatusResolved(outcome)
    \/ \E outcome \in Outcomes : CancelReleaseResolved(outcome)
    \/ \E id \in AppointmentIds, slot_id \in SlotIds \cup {NoSuchSlot} :
          RescheduleAppointment(id, slot_id)
    \/ \E outcome \in Outcomes : RescheduleSelectResolved(outcome)
    \/ \E outcome \in Outcomes : RescheduleReleaseResolved(outcome)
    \/ \E outcome \in Outcomes : RescheduleTimeResolved(outcome)
    \/ \E outcome \in Outcomes : RescheduleLinkResolved(outcome)

SpecBooking == InitBooking /\ [][NextBooking]_vars

\* ------------------------------------------------------------------------
\* Properties
\* ------------------------------------------------------------------------

Stopping == StopsInFlight(State) > 0
Acquiring(s) == startPc[s] \in {"resume", "gum", "connect", "opened"}
Live(s) == transport[s] \in {"connecting", "open"}
InFlight(s) == Live(s) \/ transport[s] \in {"closing", "failing", "remoteClosing"}

\* C1: stopAssistant is idempotent per session: however its invocations
\* overlap, the transport of a session is closed at most once and the summary
\* of a call is triggered at most once.
StopRunsOnce ==
    \A s \in Sessions : closeCalls[s] <= 1 /\ summaryTriggers[s] <= 1

\* Every resource start call s acquired is released.
Released(s) ==
    /\ ticker[s] # "armed" /\ stream[s] # "live" /\ proc[s] # "attached"
    /\ ~Live(s) /\ sessionRef # s
    /\ ctxIn[s] # "running" /\ ctxOut[s] # "running"

\* C2: once a session has left through the microphone-failure path or the
\* transport error/close path and no stopAssistant is still running, every
\* resource it acquired is released and (no other session being live) no
\* playback buffer is tracked.
TeardownReleasesAll ==
    \A s \in Sessions :
        ((startPc[s] = "failed" \/ transport[s] = "closed")
            /\ ~Stopping /\ Settled)
        => /\ Released(s)
           /\ (\A r \in Sessions \ {s} : ~Live(r)) => sourcesRef = {}

\* C3: a startAssistant call made while a session's transport is open is
\* rejected and leaves that transport, the capture stream, the tracked
\* buffers, the transcript and the phase as they were.
StartLeavesLiveSessionAlone ==
    [][\A s \in Sessions :
          (transport[s] = "open" /\ nCalls' # nCalls)
          => /\ startPc'[nCalls'] = "rejected"
             /\ transport'[s] = transport[s] /\ stream'[s] = stream[s]
             /\ sourcesRef' = sourcesRef
             /\ transcriptHistoryRef' = transcriptHistoryRef
             /\ botState' = botState]_vars

\* C4: when the tool-call loop of a batch ends on a transport that is still
\* open, exactly one response has been sent for every invocation of the batch.
ToolLoopAnswersAll ==
    [][(tool # NoTool /\ tool' = NoTool /\ transport[tool.sess] = "open")
       => \A i \in 1..Len(tool.calls) :
             Cardinality({j \in 1..Len(sent'[tool.sess]) :
                 sent'[tool.sess][j] = [id |-> << tool.msg, i >>,
                                        name |-> tool.calls[i]]}) = 1]_vars

\* C6: a pending hang-up always has something pending that will end it: a
\* buffer still to finish, a drain check, a fallback timer or a stopAssistant
\* in progress.
HangupDeferralBounded ==
    hangupPendingRef =>
        \/ \E k \in Msgs : src[k] \in {"decoding", "playing", "stopped"}
        \/ drainTimers > 0 \/ hangupTimers > 0
        \/ Stopping \/ ~Settled

\* C7: once stopAssistant has run to its end while start call s was still
\* acquiring, no later step (other than a new start call) opens the transport
\* of s, attaches its capture pipeline, arms its heartbeat or moves the phase
\* off idle.
StopSafeMidAcquisition ==
    [][\A s \in Sessions :
          (startPc[s] \in {"resume", "gum", "connect"}
              /\ ~isStartingRef /\ ~isActive /\ ~Stopping
              /\ nCalls' = nCalls)
          => /\ transport'[s] # "open" /\ proc'[s] # "attached"
             /\ ticker'[s] # "armed" /\ botState' = "idle"]_vars

\* C8: when onclose is delivered for a close the remote end initiated while
\* the phase is speaking, the handler stops every tracked buffer, clears the
\* heartbeat of that session and has the phase at idle when its teardown ends.
UnexpectedCloseTearsDown ==
    [][\A s \in Sessions :
          (transport[s] = "remoteClosing" /\ transport'[s] = "closed"
              /\ botState = "speaking")
          => /\ sourcesRef' = {} /\ ticker'[s] # "armed"
             /\ (botState' = "idle" \/ Stopping')]_vars

\* C9: when onerror is delivered in a non-idle phase, the handler runs the
\* release sequence (heartbeat, capture pipeline, microphone) and has the
\* phase at idle when its teardown ends.
TransportErrorTearsDown ==
    [][\A s \in Sessions :
          (transport'[s] = "failing" /\ transport[s] # "failing"
              /\ botState # "idle")
          => /\ ticker'[s] # "armed" /\ proc'[s] # "attached"
             /\ stream'[s] # "live" /\ sourcesRef' = {}
             /\ (botState' = "idle" \/ Stopping')]_vars

\* Nothing of the run is in progress apart from start call s.
QuietExcept(s) ==
    /\ Settled /\ ~Stopping /\ drainTimers = 0
    /\ \A k \in Msgs : src[k] \in {"none", "ended"}
    /\ \A r \in Sessions \ {s} : ~Acquiring(r) /\ ~InFlight(r)

\* C10: when getUserMedia is rejected for start call s while nothing else of
\* the run is in progress, the catch handler leaves the phase at idle (at the
\* latest when its teardown ends), no transport was opened for s and no
\* heartbeat is armed.
MicDeniedEndsIdle ==
    [][\A s \in Sessions :
          (startPc[s] = "gum" /\ startPc'[s] = "failed" /\ QuietExcept(s))
          => /\ botState' = "idle" \/ Stopping'
             /\ transport'[s] = "none"
             /\ \A r \in Sessions : ticker'[r] # "armed"]_vars

\* ---- src/App.tsx, third component

\* A step in which stopAssistant runs while a hang-up is pending and buffers
\* are tracked (only stopAssistant resets the flag), and what triggered it.
TeardownDuringDeferral ==
    hangupPendingRef /\ sourcesRef # {} /\ ~hangupPendingRef'
ByFallbackTimer == hangupTimers' < hangupTimers
ByDrain ==
    \E k \in Msgs :
        src[k] # "ended" /\ src'[k] = "ended" /\ sourcesRef \subseteq {k}
ByOtherExit ==
    \/ inputs' # inputs /\ nMsgs' = nMsgs
    \/ \E s \in Sessions : transport[s] # "closed" /\ transport'[s] = "closed"

Scheduled(k) == src[k] \in {"playing", "stopped", "ended"}

\* C11: the chunks of a session are scheduled in receipt order without
\* overlap, start(j) >= start(i) + d(i) for i received before j, and no
\* chunk is scheduled to start before the playback clock at its scheduling.
ChunksScheduledInOrder ==
    /\ \A i, j \in Msgs :
          (i < j /\ Scheduled(i) /\ Scheduled(j)
                 /\ play[i].sess = play[j].sess)
          => play[j].start >= play[i].start + play[i].dur
    /\ \A k \in Msgs : Scheduled(k) => play[k].start >= play[k].at


\* two chunks of one session, the second one received while the first was
\* still to play and so queued behind it
SecondChunkQueued ==
    \E i, j \in Msgs :
        /\ i < j /\ Scheduled(i) /\ Scheduled(j)
        /\ play[i].sess = play[j].sess
        /\ play[j].at < play[j].start

PlayEnd(k) == play[k].start + play[k].dur
Received(k) == src[k] = "none" /\ src'[k] = "decoding"
Started(k) == src[k] = "decoding" /\ src'[k] = "playing"
Follows(k) == k > 1 /\ Scheduled(k - 1) /\ play[k - 1].sess = play[k].sess

\* C12: a chunk is scheduled to start at max(now, lastScheduledEnd) and the
\* cursor is then advanced by the chunk's duration; a chunk that is received
\* no later than the scheduled end of the chunk before it starts at that end.
ChunkStartsAtCursor ==
    [][\A k \in Msgs :
          /\ Received(k) =>
                nextStartTimeRef' = IF clock > nextStartTimeRef
                                    THEN clock ELSE nextStartTimeRef
          /\ Started(k) =>
                /\ play'[k].start = nextStartTimeRef
                /\ play'[k].start >= clock
                /\ nextStartTimeRef' = play'[k].start + play'[k].dur
                /\ (Follows(k) /\ clock <= PlayEnd(k - 1))
                   => play'[k].start = PlayEnd(k - 1)]_vars

\* C12 as stated: whatever the jitter, the second of two consecutive chunks
\* starts at the scheduled start of the first plus the first's duration.
SecondStartsAtFirstEnd ==
    \A k \in Msgs :
        (k > 1 /\ Scheduled(k) /\ Scheduled(k - 1)
               /\ play[k - 1].sess = play[k].sess)
        => play[k].start = PlayEnd(k - 1)

\* the second chunk was received with jitter, the clock having advanced
\* after the first was scheduled, and still starts at the first one's end
JitteredChunkStartsAtEnd ==
    \E k \in Msgs :
        /\ k > 1 /\ Scheduled(k) /\ Scheduled(k - 1)
        /\ play[k - 1].sess = play[k].sess
        /\ play[k].at > play[k - 1].at
        /\ play[k].start = PlayEnd(k - 1)
        /\ play[k].start > play[k].at


\* ------------------------------------------------------------- capture
\* C13: outbound audio goes out in capture order, one message per captured
\* frame: every frame captured on an open transport appends exactly one
\* message, that of the frame, with 2 bytes per sample of its 4096 samples;
\* nothing else adds a message, and the messages sent are in capture order.
FramesSentInCaptureOrder ==
    [][\A s \in Sessions :
          /\ (captured'[s] # captured[s] /\ transport[s] = "open")
             => audioOut'[s] = Append(audioOut[s],
                                      [frame |-> captured[s] + 1,
                                       bytes |-> 2 * FrameSamples])
          /\ audioOut'[s] # audioOut[s] => captured'[s] = captured[s] + 1
          /\ \A i \in 1..(Len(audioOut'[s]) - 1) :
                audioOut'[s][i].frame < audioOut'[s][i + 1].frame]_vars

\* a session that captured two frames and sent both
TwoFramesSent ==
    \E s \in Sessions :
        /\ captured[s] = 2 /\ Len(audioOut[s]) = 2
        /\ audioOut[s][1].frame = 1 /\ audioOut[s][2].frame = 2

\* C15: once the transport has reported an error or an unexpected close, no
\* send is issued on it, neither of an audio frame nor of a tool response.
NoSendAfterTransportEnded == \A s \in Sessions : lateSends[s] = 0


\* --------------------------------------------------------------- codec
\* C14: the transport encoding round-trips: decode(encode(b)) = b for the
\* bytes b of every buffer of 16-bit little-endian samples, so the decoded
\* bytes hold the 16-bit samples that were encoded.
CodecRoundTrips ==
    codec.pc = "decoded"
    => /\ codec.out = codec.bytes
       /\ Int16View(codec.out) = codec.samples

\* a buffer of two samples (four bytes, so the last group is padded) with
\* bytes above 127 has gone through encode and decode
PaddedBufferDecoded ==
    /\ codec.pc = "decoded"
    /\ codec.samples = << -32768, -1 >>
    /\ Len(codec.wire) = 8 /\ codec.wire[8] = Pad


\* ----------------------------------------------------------- tool loop
\* C16: whatever the outcome of an awaited tool handler, failure included,
\* a result for that invocation is sent on the open transport, the next
\* invocation of the batch is dispatched and the session stays open.
HandlerFailureAnswered ==
    [][(tool # NoTool /\ tool' # tool /\ transport[tool.sess] = "open")
       => /\ sent'[tool.sess] =
                Append(sent[tool.sess],
                       [id |-> << tool.msg, tool.idx >>,
                        name |-> tool.calls[tool.idx]])
          /\ tool.idx < Len(tool.calls)
                => tool' = [tool EXCEPT !.idx = @ + 1]
          /\ transport'[tool.sess] = "open"]_vars


\* ------------------------------------------------------- single session
\* C17: there is never more than one open transport, one attached capture
\* pipeline and one armed keep-alive ticker.
AtMostOneLiveSession ==
    /\ Cardinality({s \in Sessions : transport[s] = "open"}) <= 1
    /\ Cardinality({s \in Sessions : proc[s] = "attached"}) <= 1
    /\ Cardinality({s \in Sessions : ticker[s] = "armed"}) <= 1


\* -------------------------------------------------------------- hang_up
HangUpAwaited(tl) == tl # NoTool /\ tl.calls[tl.idx] = "hang_up"
HangUpCalled ==
    HangUpAwaited(tool') /\ (HangUpAwaited(tool) => tool.idx # tool'.idx)

\* C18: the hang_up handler performs no teardown itself (the step that runs
\* it releases nothing and closes nothing), and its success result is sent
\* on the transport while the transport is still open.
HangUpAnsweredBeforeClose ==
    [][/\ HangUpCalled
          => /\ hangupPendingRef'
             /\ transport' = transport /\ closeCalls' = closeCalls
             /\ stopsAt' = stopsAt /\ sessionRef' = sessionRef
             /\ ticker' = ticker /\ proc' = proc /\ stream' = stream
             /\ ctxIn' = ctxIn /\ ctxOut' = ctxOut /\ src' = src
             /\ isActive' = isActive /\ botState' = botState
       /\ (HangUpAwaited(tool) /\ tool' # tool
              /\ transport[tool.sess] = "open")
          => /\ sent'[tool.sess] =
                   Append(sent[tool.sess],
                          [id |-> << tool.msg, tool.idx >>,
                           name |-> "hang_up"])
             /\ transport'[tool.sess] = "open"
             /\ closeCalls' = closeCalls]_vars

\* the result of hang_up has gone out on a transport that is open and on
\* which close() was never called, the deferral flag being set
HangUpResultSent ==
    \E s \in Sessions :
        /\ hangupPendingRef /\ transport[s] = "open" /\ closeCalls[s] = 0
        /\ \E j \in 1..Len(sent[s]) : sent[s][j].name = "hang_up"


\* --------------------------------------------------------- interruption
\* C19: on an interrupted event every tracked buffer is stopped and the
\* tracked set is emptied, the cursor is reset, so that the next chunk
\* starts at the playback clock, and the phase becomes listening at once,
\* whether or not playback had drained.
InterruptedFlushesPlayback ==
    [][/\ interrupts' # interrupts
          => /\ sourcesRef' = {}
             /\ \A k \in sourcesRef : src'[k] = "stopped"
             /\ \A k \in Msgs : src'[k] # "playing"
             /\ nextStartTimeRef' = 0
             /\ botState' = "listening"
       /\ \A k \in Msgs :
             /\ (Received(k) /\ nextStartTimeRef = 0)
                => nextStartTimeRef' = clock
             /\ Started(k) => play'[k].start = nextStartTimeRef]_vars

\* a buffer was stopped by an interruption before it had played out, and
\* the chunk after it starts at the playback clock of its arrival, before
\* the scheduled end of the stopped one
ChunkAfterInterruptionStartsNow ==
    \E i, j \in Msgs :
        /\ i < j /\ interrupts > 0
        /\ src[i] = "stopped" /\ Scheduled(j)
        /\ play[j].start = play[j].at
        /\ play[j].start < PlayEnd(i)


\* -------------------------------------------------------- release order
\* the place of a release in the order the specification gives: ticker,
\* capture source, playback, transport, session handle
ReleaseRank(what) ==
    CASE what = "ticker" -> 1
      [] what \in {"processor", "microphone"} -> 2
      [] what = "playback" -> 3
      [] what = "transport" -> 4
      [] what = "handle" -> 5

\* C20: stopAssistant releases in this order: the keep-alive ticker first,
\* then the capture source (microphone), then the playback scheduler
\* (tracked buffers stopped), then the transport, then the session handle.
ReleaseOrderAsSpecified ==
    \A i, j \in 1..Len(releaseLog) :
        i < j => ReleaseRank(releaseLog[i]) <= ReleaseRank(releaseLog[j])


\* ---------------------------------------------------- acquisition order
\* C21: startAssistant acquires in the order capture source, transport,
\* playback attachment, keep-alive ticker: while the microphone has not
\* been granted nothing else of the call is held (so nothing else has been
\* acquired when permission is denied), and the ticker and the processor
\* exist only once the transport has been opened.
AcquiredInOrder ==
    \A s \in Sessions :
        /\ stream[s] = "none" =>
              /\ ctxIn[s] = "none" /\ ctxOut[s] = "none"
              /\ transport[s] = "none"
        /\ transport[s] \in {"none", "connecting"} =>
              /\ ticker[s] = "none" /\ proc[s] = "none"


\* ---------------------------------------------------- batch dispatch
\* C22: the invocations of a tool-call batch are dispatched concurrently:
\* while the batch is being served the handler of every invocation in it
\* has been started, none waits for the handler before it to complete.
BatchDispatchedConcurrently ==
    tool # NoTool => tool.idx = Len(tool.calls)


\* ---------------------------------------------------- playback drained
\* nothing of the program is left to run by itself: no render, no
\* acquisition step, no decode, no playing buffer, no close in progress
NothingPending ==
    /\ Settled
    /\ \A s \in Sessions : ~Acquiring(s) /\ transport[s] \in {"none", "open", "closed"}
    /\ \A k \in Msgs : src[k] \in {"none", "ended", "dropped"}

\* C23: once the last tracked buffer has completed while the phase is
\* speaking the phase becomes listening by itself: when nothing is left to
\* run and no buffer is tracked, the phase is not speaking (only a further
\* inbound message could change it then).
DrainedReturnsToListening ==
    (NothingPending /\ sourcesRef = {}) => botState # "speaking"


\* ---------------------------------------------------- phase transitions
\* the listed transitions in the phase names of the program: its BotState
\* has no value of its own for Connecting (startAssistant shows processing
\* until the transport opens) nor for Closing (stopAssistant goes to idle in
\* the step that tears down), so both are passed through here
PhaseTransitions ==
    { << "idle", "processing" >>, << "processing", "listening" >>,
      << "listening", "processing" >>, << "processing", "speaking" >>,
      << "speaking", "processing" >>, << "speaking", "listening" >> }
    \cup { << p, "idle" >> : p \in {"processing", "listening", "speaking"} }

\* C24: the phase changes only along the listed transitions; in particular
\* speaking is entered only from processing (on an audio chunk) and
\* listening goes to processing, not straight to speaking.
PhaseFollowsTransitions ==
    [][botState' # botState => << botState, botState' >> \in PhaseTransitions]_vars


\* ---------------------------------------------------- capture and phase
\* the microphone is being captured: the script processor of a call is
\* attached to a running capture context and delivers frames
CaptureActive ==
    \E s \in Sessions : proc[s] = "attached" /\ ctxIn[s] = "running"

\* the session phase: the program shows processing while a call connects
\* (setBotState('processing') in startAssistant), which is the Connecting
\* phase until the transport opens
Connecting ==
    \E s \in Sessions : startPc[s] \in {"resume", "gum", "connect"}
Phase ==
    IF botState = "processing" /\ Connecting THEN "connecting" ELSE botState

\* C25: in every reachable state the microphone capture is active if and
\* only if the phase is listening, speaking or processing.
CaptureIffInCall ==
    CaptureActive <=> Phase \in {"listening", "speaking", "processing"}


\* ---------------------------------------------------- keep-alive ticker
\* C26: the keep-alive ticker is started only after the transport has
\* opened and is stopped as the first release step of teardown, so that no
\* ticker outlives its session: a ticker is armed only while the transport
\* of its call is open (or has just been closed by the endpoint and onclose
\* is still to be delivered).
TickerWithinSession ==
    \A s \in Sessions :
        ticker[s] = "armed" => transport[s] \in {"open", "remoteClosing"}


\* ---------------------------------------------------- summary
\* the release sequence of stopAssistant has completed: nothing is held in
\* the refs and no stopAssistant is suspended at an await
ReleaseCompleted(st) ==
    /\ st.heartbeatIntervalRef = 0 /\ st.scriptProcessorRef = 0
    /\ st.mediaStreamRef = 0 /\ st.sessionRef = 0
    /\ st.inputAudioContextRef = 0 /\ st.outputAudioContextRef = 0
    /\ StopsInFlight(st) = 0

\* C27: the summary collaborator is invoked only after the release
\* sequence has completed, never before or during it: a step that invokes
\* it leaves nothing still to be released.
SummaryAfterRelease ==
    [][summaryTriggers' # summaryTriggers => ReleaseCompleted(State)']_vars


\* C28: the summary collaborator works on the call's data as it was when
\* teardown was requested: every summary that has run to its insert handed
\* a record to persistence, and the record carries the start time of the
\* call it was requested for.
SummaryCarriesCallData ==
    \A i \in 1..Len(summaryLog) :
        summaryLog[i].saved /\ summaryLog[i].start = summaryLog[i].of


\* ---------------------------------------------------- malformed audio
\* the tool calls of message k have been dispatched: the loop is serving
\* them or has answered one of them
Dispatched(k) ==
    \/ tool # NoTool /\ tool.msg = k
    \/ \E s \in Sessions : \E i \in 1..Len(sent[s]) : sent[s][i].id[1] = k

\* C29: a malformed inbound audio payload drops only that chunk: the tool
\* calls carried by the same message are still dispatched, and the phase
\* does not stay speaking with an empty tracked set once nothing is left to
\* run.
MalformedChunkOnlyDropped ==
    \A m \in dropped :
        /\ m.calls # << >> => Dispatched(m.msg)
        /\ (NothingPending /\ drainTimers = 0 /\ sourcesRef = {})
               => botState # "speaking"


\* ---------------------------------------------------- unknown tool
\* C30: an invocation whose name has no registered handler is answered on
\* an explicit error path: a tool response with the invocation's id is
\* sent for it, it is not passed over in silence.
UnknownToolAnswered ==
    \A g \in skipped :
        \E i \in 1..Len(sent[g.sess]) : sent[g.sess][i].id = << g.msg, g.idx >>


\* ---------------------------------------------------- transcript
\* seq is a prefix of longer
IsPrefix(seq, longer) ==
    Len(seq) <= Len(longer) /\ SubSeq(longer, 1, Len(seq)) = seq

\* a call is open before and after the step
SessionGoesOn ==
    \E s \in Sessions : transport[s] = "open" /\ transport'[s] = "open"

\* C31: while a session goes on the transcript is append-only, and it grows
\* only by the pending turn (user entry first, then the assistant's), which
\* is empty afterwards.
TranscriptAppendOnly ==
    [][SessionGoesOn =>
          /\ IsPrefix(transcriptHistoryRef, transcriptHistoryRef')
          /\ transcriptHistoryRef' # transcriptHistoryRef =>
                /\ transcriptHistoryRef' =
                       PushTurn(transcriptHistoryRef, currentTurnRef)
                /\ currentTurnRef' = EmptyTurn]_vars


\* ---------------------------------------------------- idle stays idle
\* the step is the completion callback of a buffer or a delayed drain check
CompletionStep ==
    \/ \E k \in Msgs : src[k] \in {"playing", "stopped"} /\ src'[k] = "ended"
    \/ drainTimers' < drainTimers

\* C32: once teardown has set the phase to idle, the completion callbacks of
\* the buffers it stopped, and their drain checks, leave the phase idle and
\* start no further teardown.
IdleStaysIdleAfterTeardown ==
    [][(CompletionStep /\ botState = "idle") =>
          /\ botState' = "idle"
          /\ closeCalls' = closeCalls
          /\ summaryTriggers' = summaryTriggers]_vars


\* ---------------------------------------------------- cursor across calls
\* chunk k is the first audio chunk of its call
FirstChunkOfCall(k) ==
    \A j \in Msgs : j < k => play[j].sess # play[k].sess

\* C33: the scheduling cursor does not leak across calls: the first audio
\* chunk of a call that follows another one is started at the playback
\* clock's current time.
CursorNotLeaked ==
    [][\A k \in Msgs :
          (Started(k) /\ FirstChunkOfCall(k) /\ play[k].sess > 1)
              => play'[k].start = play'[k].at]_vars


\* ---------------------------------------------------- stale hang-up timer
\* a hang-up fallback timer fires in this step (the oldest one pending)
TimerFires == hangupTimers' < hangupTimers

\* C34: a hang-up fallback timer armed in one call never tears down a later
\* call: when the timer of a call that has ended fires, every later call
\* that is open stays open.
StaleTimerLeavesLaterCall ==
    [][(TimerFires /\ ~InFlight(Head(hangupTimerOf))) =>
          \A s2 \in Sessions :
              (s2 > Head(hangupTimerOf) /\ transport[s2] = "open")
                  => transport'[s2] = "open"]_vars


\* ---------------------------------------------------- transcript per call
\* the calls the fragments of a transcript came from
FragmentsOf(hist) ==
    UNION {{hist[i].text[j] : j \in 1..Len(hist[i].text)} : i \in 1..Len(hist)}

\* C35: the transcript handed to the summary of a call contains only turns
\* received during that call.
SummaryTranscriptOfOwnCall ==
    \A job \in summaryJobs : FragmentsOf(job.transcript) \subseteq {job.of}


\* ---------------------------------------------------- start after teardown
\* no stopAssistant is suspended at an await and no startAssistant is
\* between its guard and the end of its acquisition
NoStartOrStopRunning ==
    /\ Settled /\ ~Stopping
    /\ \A s \in Sessions : ~Acquiring(s)

\* C36: after any teardown, whichever exit path caused it (a failed start
\* included), the start-in-progress flag is cleared, and the next
\* startAssistant is accepted and begins acquisition.
StartAcceptedAfterTeardown ==
    /\ NoStartOrStopRunning => ~isStartingRef
    /\ \A s \in Sessions : startPc[s] # "rejected"


\* the first call failed at the microphone and the second click has been
\* accepted: the second call is acquiring
SecondStartAcquiringAfterFailedFirst ==
    /\ startPc[1] = "failed" /\ startPc[2] \in {"resume", "gum", "connect"}
    /\ ctxIn[2] = "running"


\* -------------------------------------------------------------- booking
\* the scheduled appointments held at a slot's time
ScheduledAt(slot_id) ==
    {a \in 1..Len(doctor_appointments) :
        /\ doctor_appointments[a].status = "scheduled"
        /\ doctor_appointments[a].appointment_time
              = doctor_slots[slot_id].start_time}
NoDoubleBooking == \A slot_id \in SlotIds : Cardinality(ScheduledAt(slot_id)) <= 1
Returns(name, result) ==
    /\ dbCall.name = name /\ dbCall' = NoDbCall
    /\ bookingResults' = Append(bookingResults, [name |-> name, result |-> result])

\* C37: no double booking: after any sequence of book_appointment,
\* cancel_appointment and reschedule_appointment calls every slot is
\* referenced by at most one scheduled appointment, and book_appointment
\* returns SUCCESS only if the requested slot was available and ends up
\* marked unavailable and linked to the new appointment.
BookingNeverDoubles ==
    [][/\ NoDoubleBooking'
       /\ Returns("book_appointment", "SUCCESS") =>
             /\ dbCall.slot_id \in SlotIds
             /\ doctor_slots[dbCall.slot_id].is_available
             /\ ~doctor_slots'[dbCall.slot_id].is_available
             /\ doctor_slots'[dbCall.slot_id].appointment_id
                   = dbCall.appointment_id]_vars

\* C38: reschedule_appointment leaves the record store unchanged when it
\* returns an ERROR result: the slot linked to the appointment is still
\* marked unavailable and linked to it, and the appointment's time is
\* unchanged.
RescheduleErrorLeavesStore ==
    [][Returns("reschedule_appointment", "ERROR") =>
          /\ doctor_appointments' = doctor_appointments
          /\ \A slot_id \in SlotIds :
                doctor_slots[slot_id].appointment_id = dbCall.appointment_id
                   => doctor_slots'[slot_id] = doctor_slots[slot_id]]_vars


\* --------------------------------------------------------- quantization
\* C39: the quantization of a captured sample s in [-1.0, 1.0] never wraps
\* around: the stored 16-bit value has the same sign as s, full scale
\* s = 1.0 included (a positive sample is not stored as a negative value, nor
\* a negative one as a positive value).
QuantizationKeepsSign ==
    pcm.pc = "quantized" =>
        \A i \in 1..Len(pcm.inputData) :
            /\ pcm.inputData[i] > 0 => pcm.int16[i] >= 0
            /\ pcm.inputData[i] < 0 => pcm.int16[i] <= 0

=============================================================================
